---- MODULE Spec2Model ----
(***************************************************************************)
(* Mesh connectivity (topology), tag sets, tagged pushes and command       *)
(* interpreter of the mersh crate.                                         *)
(*                                                                         *)
(* The model covers src/src/connections.rs (labels, connection records,    *)
(* EdgeToTri::get_edge_position, TriToTri::get_common_edge) and            *)
(* src/src/topology.rs (Topology::new and the three build passes),         *)
(* src/src/tag.rs (TagSet), src/src/mesh.rs (the tagged pushes of Mesh3d)  *)
(* and src/src/interpreter.rs (resources, command queue and history).      *)
(*                                                                         *)
(* Conventions.  A Rust Vec is a TLA+ sequence; the Rust index i is the    *)
(* TLA+ position i + 1.  The fixed-size arrays Edge.v and Tri.v are        *)
(* functions over 0..1 and 0..2, so that slots keep the source numbering.  *)
(* The `tag` field of Edge and Tri is never read by the topology code and  *)
(* is left out.  A panic (out-of-bounds index, rejected label) sets        *)
(* `fault`; the unwinding leaves the arrays as they were at that point.    *)
(*                                                                         *)
(* Specifications.                                                         *)
(*   Spec      a Topology over any mesh of edges and triangles, dangling   *)
(*             vertex indices included; the three build passes in any      *)
(*             order, any number of times.                                 *)
(*   SpecEdges build_edges over meshes of edges alone (longer arrays).     *)
(*   SpecWide  the three build passes over well-formed meshes of up to     *)
(*             three elements and over the meshes of the repository's      *)
(*             tests and documentation examples.                           *)
(*   SpecConn  one direct call of get_edge_position or get_common_edge.    *)
(*   SpecCtor  one direct call of one of the five record constructors.     *)
(*   SpecTag   a TagSet under any sequence of register calls.              *)
(*   SpecMesh  a Mesh3d under plain and tagged pushes on its six arrays.   *)
(*   SpecInterp an Interpreter under push_cmd and apply_cmds_in_queue.     *)
(*   SpecNew   an Interpreter under direct calls of the new_* methods.     *)
(*                                                                         *)
(* A definition introduced as "Mutant" is a faulty variant of the          *)
(* definition that follows it; the properties are shown to fail on it.     *)
(***************************************************************************)
EXTENDS Integers, Sequences, FiniteSets, TLC

\* Vertex indices an element may hold are 0 .. MaxIndex - 1; a mesh has at
\* most MaxIndex vertices and at most MaxElems edges and triangles together.
MaxIndex == 4
MaxElems == 2

\* The meshes of edges alone hold at most MaxEdges edges, over the vertex
\* indices 0 .. MaxEdgeIndex - 1.
MaxEdgeIndex == 3
MaxEdges == 3

\* The wider well-formed meshes hold at most MaxWideElems edges and triangles
\* together, over the MaxWideIndex vertices 0 .. MaxWideIndex - 1.
MaxWideIndex == 3
MaxWideElems == 3

\* Constructor calls take positions 0 .. MaxPosition and element indices
\* 0 .. MaxRecordIndex.
MaxPosition == 4
MaxRecordIndex == 2

\* A TagSet takes at most MaxRegisters register calls, of the indexes
\* 0 .. MaxTagIndex.
MaxRegisters == 4
MaxTagIndex == 2

\* A Mesh3d takes at most MaxPushes pushes, plain and tagged together.
MaxPushes == 2

\* An Interpreter takes at most MaxCmds commands, queued or applied
\* directly; a NewUInt command carries an input in 0 .. MaxUInt.
MaxCmds == 3
MaxUInt == 1

VARIABLES
    nvertices,   \* Topology.nvertices
    elements,    \* Topology.elements: [edges: Seq(Edge), tris: Seq(Tri)]
    vertices,    \* Topology.vertices: Seq(VertexTopology)
    edges,       \* Topology.edges:    Seq(EdgeTopology)
    tris,        \* Topology.tris:     Seq(TriTopology)
    fault,       \* "none", or the panic that ended the last build call
    built,       \* history: the build methods that have completed
    call,        \* history: the last direct call of a pure function
    tag_map,     \* TagSet.tag_map: tag name -> Seq(index), on the names in use
    registered,  \* history: the register calls made on the TagSet, in order
    mesh,        \* Mesh3d: per kind of element, its array and its tag set
    tagged,      \* history: the tagged pushes made on the mesh, in order
    resources,   \* Interpreter.resources: id -> Resource, on the ids in use
    cmd_history, \* Interpreter.cmd_history: Seq(Cmd)
    cmd_queue,   \* Interpreter.cmd_queue: Seq(Cmd)
    applied      \* history: the commands apply_cmd has completed, in order

\* The variables of the Topology and of the direct calls.
topology_vars == <<nvertices, elements, vertices, edges, tris, built, call>>

\* The variables of the TagSet, of the Mesh3d and of the Interpreter.
library_vars ==
    <<tag_map, registered, mesh, tagged, resources, cmd_history, cmd_queue, applied>>

vars == <<nvertices, elements, vertices, edges, tris, fault, built, call, library_vars>>

-----------------------------------------------------------------------------
(* Elements (the version of elements.rs that topology.rs is written for). *)

Edge(a, b) == [v |-> (0 :> a @@ 1 :> b)]

Tri(a, b, c) == [v |-> (0 :> a @@ 1 :> b @@ 2 :> c)]

VertexIds == 0 .. (MaxIndex - 1)

AllEdges == {Edge(a, b) : a \in VertexIds, b \in VertexIds}

AllTris == {Tri(a, b, c) : a \in VertexIds, b \in VertexIds, c \in VertexIds}

-----------------------------------------------------------------------------
(* connections.rs: labels and connection records.                          *)

\* `label as usize` on VertexLabel and EdgeLabel.
LabelIndex(l) ==
    CASE l = "V0" -> 0 [] l = "V1" -> 1 [] l = "V2" -> 2
      [] l = "E0" -> 0 [] l = "E1" -> 1 [] l = "E2" -> 2

\* The value of an expression whose evaluation panicked.
Panic == [panic |-> TRUE]

IsPanic(r) == "panic" \in DOMAIN r

VertexToEdge_new(edge_index, position) ==
    CASE position = 0 -> [edge_index |-> edge_index, connecting_vertex |-> "V0"]
      [] position = 1 -> [edge_index |-> edge_index, connecting_vertex |-> "V1"]
      [] OTHER -> Panic

\* Mutant: a position above 2 is clamped to the last label.
VertexToTri_new_clamp(tri_index, position) ==
    CASE position = 0 -> [tri_index |-> tri_index, connecting_vertex |-> "V0"]
      [] position = 1 -> [tri_index |-> tri_index, connecting_vertex |-> "V1"]
      [] OTHER -> [tri_index |-> tri_index, connecting_vertex |-> "V2"]

VertexToTri_new(tri_index, position) ==
    CASE position = 0 -> [tri_index |-> tri_index, connecting_vertex |-> "V0"]
      [] position = 1 -> [tri_index |-> tri_index, connecting_vertex |-> "V1"]
      [] position = 2 -> [tri_index |-> tri_index, connecting_vertex |-> "V2"]
      [] OTHER -> Panic

\* The argument is evaluated before the call: a panic in it comes first.
EdgeToEdge_new(position, neighbour) ==
    IF IsPanic(neighbour) THEN Panic
    ELSE CASE position = 0 -> [connecting_vertex |-> "V0", neighbour |-> neighbour]
           [] position = 1 -> [connecting_vertex |-> "V1", neighbour |-> neighbour]
           [] OTHER -> Panic

EdgePosition(label, is_reversed) == [label |-> label, is_reversed |-> is_reversed]

EdgeToTri_new(tri_index, position, is_reversed) ==
    CASE position = 0 -> [tri_index |-> tri_index, connecting_edge |-> EdgePosition("E0", is_reversed)]
      [] position = 1 -> [tri_index |-> tri_index, connecting_edge |-> EdgePosition("E1", is_reversed)]
      [] position = 2 -> [tri_index |-> tri_index, connecting_edge |-> EdgePosition("E2", is_reversed)]
      [] OTHER -> Panic

TriToTri_new(position, neighbour) ==
    IF IsPanic(neighbour) THEN Panic
    ELSE CASE position = 0 -> [connecting_edge |-> "E0", neighbour |-> neighbour]
           [] position = 1 -> [connecting_edge |-> "E1", neighbour |-> neighbour]
           [] position = 2 -> [connecting_edge |-> "E2", neighbour |-> neighbour]
           [] OTHER -> Panic

\* Option<T>.
None == [some |-> FALSE]

Some(x) == [some |-> TRUE, val |-> x]

\* Mutant: the reversed test of the third face reports the edge as forward.
get_edge_position_flag(e, t) ==
    IF e.v[0] = t.v[0] /\ e.v[1] = t.v[1] THEN Some(EdgePosition("E0", FALSE))
    ELSE IF e.v[1] = t.v[0] /\ e.v[0] = t.v[1] THEN Some(EdgePosition("E0", TRUE))
    ELSE IF e.v[0] = t.v[1] /\ e.v[1] = t.v[2] THEN Some(EdgePosition("E1", FALSE))
    ELSE IF e.v[1] = t.v[1] /\ e.v[0] = t.v[2] THEN Some(EdgePosition("E1", TRUE))
    ELSE IF e.v[0] = t.v[2] /\ e.v[1] = t.v[0] THEN Some(EdgePosition("E2", FALSE))
    ELSE IF e.v[1] = t.v[2] /\ e.v[0] = t.v[0] THEN Some(EdgePosition("E2", FALSE))
    ELSE None

\* Mutant: the third face is tested against (t2, t1) instead of (t2, t0).
get_edge_position_face(e, t) ==
    IF e.v[0] = t.v[0] /\ e.v[1] = t.v[1] THEN Some(EdgePosition("E0", FALSE))
    ELSE IF e.v[1] = t.v[0] /\ e.v[0] = t.v[1] THEN Some(EdgePosition("E0", TRUE))
    ELSE IF e.v[0] = t.v[1] /\ e.v[1] = t.v[2] THEN Some(EdgePosition("E1", FALSE))
    ELSE IF e.v[1] = t.v[1] /\ e.v[0] = t.v[2] THEN Some(EdgePosition("E1", TRUE))
    ELSE IF e.v[0] = t.v[2] /\ e.v[1] = t.v[1] THEN Some(EdgePosition("E2", FALSE))
    ELSE IF e.v[1] = t.v[2] /\ e.v[0] = t.v[1] THEN Some(EdgePosition("E2", TRUE))
    ELSE None

\* Mutant: the forward test of the first face accepts one shared vertex.
get_edge_position_or(e, t) ==
    IF e.v[0] = t.v[0] \/ e.v[1] = t.v[1] THEN Some(EdgePosition("E0", FALSE))
    ELSE IF e.v[1] = t.v[0] /\ e.v[0] = t.v[1] THEN Some(EdgePosition("E0", TRUE))
    ELSE IF e.v[0] = t.v[1] /\ e.v[1] = t.v[2] THEN Some(EdgePosition("E1", FALSE))
    ELSE IF e.v[1] = t.v[1] /\ e.v[0] = t.v[2] THEN Some(EdgePosition("E1", TRUE))
    ELSE IF e.v[0] = t.v[2] /\ e.v[1] = t.v[0] THEN Some(EdgePosition("E2", FALSE))
    ELSE IF e.v[1] = t.v[2] /\ e.v[0] = t.v[0] THEN Some(EdgePosition("E2", TRUE))
    ELSE None

\* Mutant: the reversed test of the first face is made after the tests of
\* the second face.
get_edge_position_order(e, t) ==
    IF e.v[0] = t.v[0] /\ e.v[1] = t.v[1] THEN Some(EdgePosition("E0", FALSE))
    ELSE IF e.v[0] = t.v[1] /\ e.v[1] = t.v[2] THEN Some(EdgePosition("E1", FALSE))
    ELSE IF e.v[1] = t.v[1] /\ e.v[0] = t.v[2] THEN Some(EdgePosition("E1", TRUE))
    ELSE IF e.v[1] = t.v[0] /\ e.v[0] = t.v[1] THEN Some(EdgePosition("E0", TRUE))
    ELSE IF e.v[0] = t.v[2] /\ e.v[1] = t.v[0] THEN Some(EdgePosition("E2", FALSE))
    ELSE IF e.v[1] = t.v[2] /\ e.v[0] = t.v[0] THEN Some(EdgePosition("E2", TRUE))
    ELSE None

get_edge_position(e, t) ==
    IF e.v[0] = t.v[0] /\ e.v[1] = t.v[1] THEN Some(EdgePosition("E0", FALSE))
    ELSE IF e.v[1] = t.v[0] /\ e.v[0] = t.v[1] THEN Some(EdgePosition("E0", TRUE))
    ELSE IF e.v[0] = t.v[1] /\ e.v[1] = t.v[2] THEN Some(EdgePosition("E1", FALSE))
    ELSE IF e.v[1] = t.v[1] /\ e.v[0] = t.v[2] THEN Some(EdgePosition("E1", TRUE))
    ELSE IF e.v[0] = t.v[2] /\ e.v[1] = t.v[0] THEN Some(EdgePosition("E2", FALSE))
    ELSE IF e.v[1] = t.v[2] /\ e.v[0] = t.v[0] THEN Some(EdgePosition("E2", TRUE))
    ELSE None

\* Mutant: the edges of t0 are tried from the last to the first.
get_common_edge_last(t0, t1) ==
    LET r01 == get_edge_position(Edge(t0.v[0], t0.v[1]), t1)
        r12 == get_edge_position(Edge(t0.v[1], t0.v[2]), t1)
        r20 == get_edge_position(Edge(t0.v[2], t0.v[0]), t1)
    IN  IF r20.some THEN Some(<<"E2", r20.val>>)
        ELSE IF r12.some THEN Some(<<"E1", r12.val>>)
        ELSE IF r01.some THEN Some(<<"E0", r01.val>>)
        ELSE None

\* Mutant: the third edge of t0 is never tried.
get_common_edge_two(t0, t1) ==
    LET r01 == get_edge_position(Edge(t0.v[0], t0.v[1]), t1)
        r12 == get_edge_position(Edge(t0.v[1], t0.v[2]), t1)
    IN  IF r01.some THEN Some(<<"E0", r01.val>>)
        ELSE IF r12.some THEN Some(<<"E1", r12.val>>)
        ELSE None

\* Mutant: a hit on the first edge of t0 is always reported as forward.
get_common_edge_forward(t0, t1) ==
    LET r01 == get_edge_position(Edge(t0.v[0], t0.v[1]), t1)
        r12 == get_edge_position(Edge(t0.v[1], t0.v[2]), t1)
        r20 == get_edge_position(Edge(t0.v[2], t0.v[0]), t1)
    IN  IF r01.some THEN Some(<<"E0", EdgePosition(r01.val.label, FALSE)>>)
        ELSE IF r12.some THEN Some(<<"E1", r12.val>>)
        ELSE IF r20.some THEN Some(<<"E2", r20.val>>)
        ELSE None

get_common_edge(t0, t1) ==
    LET r01 == get_edge_position(Edge(t0.v[0], t0.v[1]), t1)
        r12 == get_edge_position(Edge(t0.v[1], t0.v[2]), t1)
        r20 == get_edge_position(Edge(t0.v[2], t0.v[0]), t1)
    IN  IF r01.some THEN Some(<<"E0", r01.val>>)
        ELSE IF r12.some THEN Some(<<"E1", r12.val>>)
        ELSE IF r20.some THEN Some(<<"E2", r20.val>>)
        ELSE None

-----------------------------------------------------------------------------
(* topology.rs: per-element topologies.                                    *)

VertexTopology_new == [incident_edges |-> <<>>, incident_tris |-> <<>>]

EdgeTopology_new == [edge_connections |-> <<>>, tri_connections |-> <<>>]

TriTopology_new == [tri_connections |-> <<>>]

\* Mutant: the previous records are kept.
VecClear_keep(arr) == arr

\* Vec::clear.
VecClear(arr) == <<>>

\* Mutant: the length is left alone, as Vec::reserve would.
VecResize_reserve(arr, n, value) == arr

\* Vec::resize(n, value): truncates to n, or extends with copies of value.
VecResize(arr, n, value) ==
    IF n <= Len(arr) THEN SubSeq(arr, 1, n)
    ELSE arr \o [k \in 1 .. (n - Len(arr)) |-> value]

(* A build pass is folded over a record [arr, fault]: arr is the output    *)
(* array so far, fault the panic that stopped the pass ("none" if none).   *)
(* Once fault is set the remaining steps do nothing.                       *)

\* self.vertices[v].incident_edges.push(rec): the index is checked first.
PushIncidentEdge(st, v, rec) ==
    IF st.fault # "none" THEN st
    ELSE IF v >= Len(st.arr) THEN [st EXCEPT !.fault = "out_of_bounds"]
    ELSE IF IsPanic(rec) THEN [st EXCEPT !.fault = "label"]
    ELSE [st EXCEPT !.arr[v + 1].incident_edges = Append(@, rec)]

\* Mutant: a vertex index past the end of the array is skipped.
PushIncidentTri_skip(st, v, rec) ==
    IF st.fault # "none" THEN st
    ELSE IF v >= Len(st.arr) THEN st
    ELSE IF IsPanic(rec) THEN [st EXCEPT !.fault = "label"]
    ELSE [st EXCEPT !.arr[v + 1].incident_tris = Append(@, rec)]

\* Mutant: the record is put at the front of the list.
PushIncidentTri_front(st, v, rec) ==
    IF st.fault # "none" THEN st
    ELSE IF v >= Len(st.arr) THEN [st EXCEPT !.fault = "out_of_bounds"]
    ELSE IF IsPanic(rec) THEN [st EXCEPT !.fault = "label"]
    ELSE [st EXCEPT !.arr[v + 1].incident_tris = <<rec>> \o @]

PushIncidentTri(st, v, rec) ==
    IF st.fault # "none" THEN st
    ELSE IF v >= Len(st.arr) THEN [st EXCEPT !.fault = "out_of_bounds"]
    ELSE IF IsPanic(rec) THEN [st EXCEPT !.fault = "label"]
    ELSE [st EXCEPT !.arr[v + 1].incident_tris = Append(@, rec)]

\* Mutant: the second endpoint is filed under the first one.
RECURSIVE VerticesEdgeLoop_slot(_, _, _)
VerticesEdgeLoop_slot(st, es, i) ==
    IF i >= Len(es) THEN st
    ELSE LET e  == es[i + 1]
             s1 == PushIncidentEdge(st, e.v[0], VertexToEdge_new(i, 0))
             s2 == PushIncidentEdge(s1, e.v[0], VertexToEdge_new(i, 1))
         IN  VerticesEdgeLoop_slot(s2, es, i + 1)

\* Mutant: the second endpoint is given the position after the last one.
RECURSIVE VerticesEdgeLoop_label(_, _, _)
VerticesEdgeLoop_label(st, es, i) ==
    IF i >= Len(es) THEN st
    ELSE LET e  == es[i + 1]
             s1 == PushIncidentEdge(st, e.v[0], VertexToEdge_new(i, 0))
             s2 == PushIncidentEdge(s1, e.v[1], VertexToEdge_new(i, 2))
         IN  VerticesEdgeLoop_label(s2, es, i + 1)

\* Loop on edges of build_vertices, from the edge of index i on.
RECURSIVE VerticesEdgeLoop(_, _, _)
VerticesEdgeLoop(st, es, i) ==
    IF i >= Len(es) THEN st
    ELSE LET e  == es[i + 1]
             s1 == PushIncidentEdge(st, e.v[0], VertexToEdge_new(i, 0))
             s2 == PushIncidentEdge(s1, e.v[1], VertexToEdge_new(i, 1))
         IN  VerticesEdgeLoop(s2, es, i + 1)

\* Loop on triangles of build_vertices, from the triangle of index i on.
RECURSIVE VerticesTriLoop(_, _, _)
VerticesTriLoop(st, ts, i) ==
    IF i >= Len(ts) THEN st
    ELSE LET t  == ts[i + 1]
             s1 == PushIncidentTri(st, t.v[0], VertexToTri_new(i, 0))
             s2 == PushIncidentTri(s1, t.v[1], VertexToTri_new(i, 1))
             s3 == PushIncidentTri(s2, t.v[2], VertexToTri_new(i, 2))
         IN  VerticesTriLoop(s3, ts, i + 1)

\* Mutant: a pass that faults gives its array back empty.
VerticesPass_rollback(old, n, els) ==
    LET s0 == [arr |-> VecResize(VecClear(old), n, VertexTopology_new), fault |-> "none"]
        s1 == VerticesEdgeLoop(s0, els.edges, 0)
        s2 == VerticesTriLoop(s1, els.tris, 0)
    IN  IF s2.fault = "none" THEN s2 ELSE [s2 EXCEPT !.arr = <<>>]

\* The array and fault build_vertices ends with.
VerticesPass(old, n, els) ==
    LET s0 == [arr |-> VecResize(VecClear(old), n, VertexTopology_new), fault |-> "none"]
        s1 == VerticesEdgeLoop(s0, els.edges, 0)
    IN  VerticesTriLoop(s1, els.tris, 0)

\* self.edges[i].edge_connections.push(rec): the index is checked first.
PushEdgeConnection(st, i, rec) ==
    IF st.fault # "none" THEN st
    ELSE IF i >= Len(st.arr) THEN [st EXCEPT !.fault = "out_of_bounds"]
    ELSE IF IsPanic(rec) THEN [st EXCEPT !.fault = "label"]
    ELSE [st EXCEPT !.arr[i + 1].edge_connections = Append(@, rec)]

\* self.edges[i].tri_connections.push(rec).
PushEdgeTriConnection(st, i, rec) ==
    IF st.fault # "none" THEN st
    ELSE IF i >= Len(st.arr) THEN [st EXCEPT !.fault = "out_of_bounds"]
    ELSE IF IsPanic(rec) THEN [st EXCEPT !.fault = "label"]
    ELSE [st EXCEPT !.arr[i + 1].tri_connections = Append(@, rec)]

\* Mutant: the third test files the record under endpoint 0 of e0.
EdgePairStep_copy(st, es, i0, i1) ==
    IF i1 = i0 THEN st
    ELSE LET e0 == es[i0 + 1]
             e1 == es[i1 + 1]
             s1 == IF e1.v[0] = e0.v[0]
                   THEN PushEdgeConnection(st, i0, EdgeToEdge_new(0, VertexToEdge_new(i1, 0)))
                   ELSE st
             s2 == IF e1.v[1] = e0.v[0]
                   THEN PushEdgeConnection(s1, i0, EdgeToEdge_new(0, VertexToEdge_new(i1, 1)))
                   ELSE s1
             s3 == IF e1.v[0] = e0.v[1]
                   THEN PushEdgeConnection(s2, i0, EdgeToEdge_new(0, VertexToEdge_new(i1, 0)))
                   ELSE s2
             s4 == IF e1.v[1] = e0.v[1]
                   THEN PushEdgeConnection(s3, i0, EdgeToEdge_new(1, VertexToEdge_new(i1, 1)))
                   ELSE s3
         IN  s4

\* The body of the inner loop on edges: the four endpoint tests, in order.
EdgePairStep(st, es, i0, i1) ==
    IF i1 = i0 THEN st
    ELSE LET e0 == es[i0 + 1]
             e1 == es[i1 + 1]
             s1 == IF e1.v[0] = e0.v[0]
                   THEN PushEdgeConnection(st, i0, EdgeToEdge_new(0, VertexToEdge_new(i1, 0)))
                   ELSE st
             s2 == IF e1.v[1] = e0.v[0]
                   THEN PushEdgeConnection(s1, i0, EdgeToEdge_new(0, VertexToEdge_new(i1, 1)))
                   ELSE s1
             s3 == IF e1.v[0] = e0.v[1]
                   THEN PushEdgeConnection(s2, i0, EdgeToEdge_new(1, VertexToEdge_new(i1, 0)))
                   ELSE s2
             s4 == IF e1.v[1] = e0.v[1]
                   THEN PushEdgeConnection(s3, i0, EdgeToEdge_new(1, VertexToEdge_new(i1, 1)))
                   ELSE s3
         IN  s4

\* Mutant: the inner loop visits only the edges after e0.
RECURSIVE EdgesEdgeLoop_upper(_, _, _, _)
EdgesEdgeLoop_upper(st, es, i0, i1) ==
    IF i0 >= Len(es) THEN st
    ELSE IF i1 >= Len(es) THEN EdgesEdgeLoop_upper(st, es, i0 + 1, i0 + 2)
    ELSE EdgesEdgeLoop_upper(EdgePairStep(st, es, i0, i1), es, i0, i1 + 1)

\* The two nested loops on edges, from the pair (i0, i1) on.
RECURSIVE EdgesEdgeLoop(_, _, _, _)
EdgesEdgeLoop(st, es, i0, i1) ==
    IF i0 >= Len(es) THEN st
    ELSE IF i1 >= Len(es) THEN EdgesEdgeLoop(st, es, i0 + 1, 0)
    ELSE EdgesEdgeLoop(EdgePairStep(st, es, i0, i1), es, i0, i1 + 1)

\* Mutant: the orientation found by the matcher is not passed on.
EdgeTriStep_flag(st, els, i, j) ==
    LET result == get_edge_position(els.edges[i + 1], els.tris[j + 1])
    IN  IF result.some
        THEN PushEdgeTriConnection(st, i,
                 EdgeToTri_new(j, LabelIndex(result.val.label), FALSE))
        ELSE st

\* The body of the loop on (edge, triangle) pairs.
EdgeTriStep(st, els, i, j) ==
    LET result == get_edge_position(els.edges[i + 1], els.tris[j + 1])
    IN  IF result.some
        THEN PushEdgeTriConnection(st, i,
                 EdgeToTri_new(j, LabelIndex(result.val.label), result.val.is_reversed))
        ELSE st

\* The loop on edges and, nested, on triangles, from the pair (i, j) on.
RECURSIVE EdgesTriLoop(_, _, _, _)
EdgesTriLoop(st, els, i, j) ==
    IF i >= Len(els.edges) THEN st
    ELSE IF j >= Len(els.tris) THEN EdgesTriLoop(st, els, i + 1, 0)
    ELSE EdgesTriLoop(EdgeTriStep(st, els, i, j), els, i, j + 1)

\* Mutant: the edge array gets one entry per mesh vertex.
EdgesPass_sized(old, els) ==
    LET s0 == [arr |-> VecResize(VecClear(old), nvertices, EdgeTopology_new),
               fault |-> "none"]
        s1 == EdgesEdgeLoop(s0, els.edges, 0, 0)
    IN  EdgesTriLoop(s1, els, 0, 0)

\* The array and fault build_edges ends with.
EdgesPass(old, els) ==
    LET s0 == [arr |-> VecResize(VecClear(old), Len(els.edges), EdgeTopology_new),
               fault |-> "none"]
        s1 == EdgesEdgeLoop(s0, els.edges, 0, 0)
    IN  EdgesTriLoop(s1, els, 0, 0)

\* self.tris[i].tri_connections.push(rec).
PushTriConnection(st, i, rec) ==
    IF st.fault # "none" THEN st
    ELSE IF i >= Len(st.arr) THEN [st EXCEPT !.fault = "out_of_bounds"]
    ELSE IF IsPanic(rec) THEN [st EXCEPT !.fault = "label"]
    ELSE [st EXCEPT !.arr[i + 1].tri_connections = Append(@, rec)]

\* Mutant: the labels of the common edge in t0 and in t1 are exchanged.
TriPairStep_swap(st, ts, i0, i1) ==
    IF i0 = i1 THEN st
    ELSE LET result == get_common_edge(ts[i0 + 1], ts[i1 + 1])
         IN  IF result.some
             THEN LET edge_to_tri == EdgeToTri_new(i1, LabelIndex(result.val[1]),
                                                   result.val[2].is_reversed)
                  IN  PushTriConnection(st, i0,
                          TriToTri_new(LabelIndex(result.val[2].label), edge_to_tri))
             ELSE st

\* Mutant: a triangle is also matched against itself.
TriPairStep_self(st, ts, i0, i1) ==
    LET result == get_common_edge(ts[i0 + 1], ts[i1 + 1])
    IN  IF result.some
        THEN LET edge_to_tri == EdgeToTri_new(i1, LabelIndex(result.val[2].label),
                                              result.val[2].is_reversed)
             IN  PushTriConnection(st, i0,
                     TriToTri_new(LabelIndex(result.val[1]), edge_to_tri))
        ELSE st

\* Mutant: one record is pushed for every edge of t0 found in t1.
TriPairStep_all(st, ts, i0, i1) ==
    IF i0 = i1 THEN st
    ELSE LET t0 == ts[i0 + 1]
             hit(k) == get_edge_position(Edge(t0.v[k], t0.v[(k + 1) % 3]), ts[i1 + 1])
             push(s, k) ==
                 IF hit(k).some
                 THEN PushTriConnection(s, i0,
                          TriToTri_new(k, EdgeToTri_new(i1, LabelIndex(hit(k).val.label),
                                                        hit(k).val.is_reversed)))
                 ELSE s
         IN  push(push(push(st, 0), 1), 2)

\* The body of the inner loop on triangles.
TriPairStep(st, ts, i0, i1) ==
    IF i0 = i1 THEN st
    ELSE LET result == get_common_edge(ts[i0 + 1], ts[i1 + 1])
         IN  IF result.some
             THEN LET edge_to_tri == EdgeToTri_new(i1, LabelIndex(result.val[2].label),
                                                   result.val[2].is_reversed)
                  IN  PushTriConnection(st, i0,
                          TriToTri_new(LabelIndex(result.val[1]), edge_to_tri))
             ELSE st

\* Mutant: the inner loop visits only the triangles after t0.
RECURSIVE TrianglesLoop_upper(_, _, _, _)
TrianglesLoop_upper(st, ts, i0, i1) ==
    IF i0 >= Len(ts) THEN st
    ELSE IF i1 >= Len(ts) THEN TrianglesLoop_upper(st, ts, i0 + 1, i0 + 2)
    ELSE TrianglesLoop_upper(TriPairStep(st, ts, i0, i1), ts, i0, i1 + 1)

\* The two nested loops on triangles, from the pair (i0, i1) on.
RECURSIVE TrianglesLoop(_, _, _, _)
TrianglesLoop(st, ts, i0, i1) ==
    IF i0 >= Len(ts) THEN st
    ELSE IF i1 >= Len(ts) THEN TrianglesLoop(st, ts, i0 + 1, 0)
    ELSE TrianglesLoop(TriPairStep(st, ts, i0, i1), ts, i0, i1 + 1)

\* The array and fault build_triangles ends with.
TrianglesPass(old, els) ==
    LET s0 == [arr |-> VecResize(VecClear(old), Len(els.tris), TriTopology_new),
               fault |-> "none"]
    IN  TrianglesLoop(s0, els.tris, 0, 0)

-----------------------------------------------------------------------------
(* The state machine of a Topology over a mesh.                            *)

SeqsUpTo(S, n) == UNION {[1 .. k -> S] : k \in 0 .. n}

\* The element arrays a mesh may hold.
MeshElements ==
    {[edges |-> es, tris |-> ts] :
        <<es, ts>> \in {p \in SeqsUpTo(AllEdges, MaxElems) \X SeqsUpTo(AllTris, MaxElems) :
                            Len(p[1]) + Len(p[2]) <= MaxElems}}

NoCall == [fn |-> "none"]

\* The kinds of element of a Mesh3d, one array and one tag set each.
Kinds == {"vertices", "edges", "triangles", "quadrangles", "tetrahedra", "hexahedra"}

\* The tag names of tests/tag.rs.
TagNames == {"tag_name_0", "tag_name_1", "tag_name_2"}

\* A HashMap is a function over every key: None on the keys not in the map.
\* TagSet::default(): no tag name is in use.
TagSet_default == [n \in TagNames |-> None]

\* The ids a resource of the Interpreter may be stored under (ids of the
\* doc examples of interpreter.rs).
ResourceIds == {"MyInt", "MyCoords", "MyMesh"}

\* Interpreter::default(): no resource.
Resources_default == [id \in ResourceIds |-> None]

\* Mesh3d::default(): every array and every tag set is empty.
Mesh3d_default == [k \in Kinds |-> [elements |-> <<>>, tags |-> TagSet_default]]

\* No TagSet, Mesh3d or Interpreter has been touched: each is as its
\* Default leaves it.
NoLibraryObjects ==
    /\ tag_map = TagSet_default
    /\ registered = <<>>
    /\ mesh = Mesh3d_default
    /\ tagged = <<>>
    /\ resources = Resources_default
    /\ cmd_history = <<>>
    /\ cmd_queue = <<>>
    /\ applied = <<>>

\* Topology::new(&mesh) over any mesh.
Init ==
    /\ nvertices \in 0 .. MaxIndex
    /\ elements \in MeshElements
    /\ vertices = <<>>
    /\ edges = <<>>
    /\ tris = <<>>
    /\ fault = "none"
    /\ built = {}
    /\ call = NoCall
    /\ NoLibraryObjects

\* A panic ends the program: no method of the Topology runs after it.
build_vertices ==
    /\ fault = "none"
    /\ LET st == VerticesPass(vertices, nvertices, elements)
       IN  /\ vertices' = st.arr
           /\ fault' = st.fault
           /\ built' = IF st.fault = "none" THEN built \cup {"vertices"} ELSE built
    /\ UNCHANGED <<nvertices, elements, edges, tris, call, library_vars>>

\* Mutant: the edge pass also resets the vertex array.
build_edges_frame ==
    /\ fault = "none"
    /\ LET st == EdgesPass(edges, elements)
       IN  /\ edges' = st.arr
           /\ fault' = st.fault
           /\ built' = IF st.fault = "none" THEN built \cup {"edges"} ELSE built
    /\ vertices' = VecResize(VecClear(vertices), nvertices, VertexTopology_new)
    /\ UNCHANGED <<nvertices, elements, tris, call, library_vars>>

build_edges ==
    /\ fault = "none"
    /\ LET st == EdgesPass(edges, elements)
       IN  /\ edges' = st.arr
           /\ fault' = st.fault
           /\ built' = IF st.fault = "none" THEN built \cup {"edges"} ELSE built
    /\ UNCHANGED <<nvertices, elements, vertices, tris, call, library_vars>>

\* Mutant: the triangle pass also clears the edge array, as if the two
\* passes shared their storage.
build_triangles_shared ==
    /\ fault = "none"
    /\ LET st == TrianglesPass(tris, elements)
       IN  /\ tris' = st.arr
           /\ fault' = st.fault
           /\ built' = IF st.fault = "none" THEN built \cup {"tris"} ELSE built
    /\ edges' = VecClear(edges)
    /\ UNCHANGED <<nvertices, elements, vertices, call, library_vars>>

build_triangles ==
    /\ fault = "none"
    /\ LET st == TrianglesPass(tris, elements)
       IN  /\ tris' = st.arr
           /\ fault' = st.fault
           /\ built' = IF st.fault = "none" THEN built \cup {"tris"} ELSE built
    /\ UNCHANGED <<nvertices, elements, vertices, edges, call, library_vars>>

Next == build_vertices \/ build_edges \/ build_triangles

Spec == Init /\ [][Next]_vars

-----------------------------------------------------------------------------
(* build_edges on the meshes that hold edges only: the edge pass over      *)
(* longer edge arrays than Spec reaches.                                   *)

EdgeMeshes ==
    {[edges |-> es, tris |-> <<>>] :
        es \in SeqsUpTo({Edge(a, b) : a \in 0 .. (MaxEdgeIndex - 1),
                                      b \in 0 .. (MaxEdgeIndex - 1)}, MaxEdges)}

\* Topology::new(&mesh) over a mesh of MaxEdgeIndex vertices and some edges.
InitEdges ==
    /\ nvertices = MaxEdgeIndex
    /\ elements \in EdgeMeshes
    /\ vertices = <<>>
    /\ edges = <<>>
    /\ tris = <<>>
    /\ fault = "none"
    /\ built = {}
    /\ call = NoCall
    /\ NoLibraryObjects

NextEdges == build_edges

SpecEdges == InitEdges /\ [][NextEdges]_vars

-----------------------------------------------------------------------------
(* The three passes over wider well-formed meshes, and over the meshes of  *)
(* the repository's tests and documentation examples.                      *)

\* The meshes of ne edges and nt triangles over the vertices 0 .. n - 1.
MeshesOfSize(n, ne, nt) ==
    [edges : [1 .. ne -> {Edge(a, b) : a \in 0 .. (n - 1), b \in 0 .. (n - 1)}],
     tris  : [1 .. nt -> {Tri(a, b, c) : a \in 0 .. (n - 1), b \in 0 .. (n - 1),
                                         c \in 0 .. (n - 1)}]]

\* The unit square of tests/square.rs and the meshes of the documentation
\* examples of build_vertices, build_edges and build_triangles, each with
\* its number of vertices.
ExampleMeshes ==
    { <<4, [edges |-> <<>>, tris |-> <<Tri(0, 1, 2), Tri(2, 3, 0)>>]>>,
      <<3, [edges |-> <<Edge(0, 1)>>, tris |-> <<Tri(2, 0, 1)>>]>>,
      <<4, [edges |-> <<Edge(0, 1), Edge(1, 2), Edge(1, 3)>>, tris |-> <<Tri(1, 0, 3)>>]>>,
      <<4, [edges |-> <<>>, tris |-> <<Tri(0, 1, 3), Tri(1, 2, 3)>>]>> }

\* Topology::new(&mesh) over one of these meshes.
InitWide ==
    /\ \/ /\ nvertices = MaxWideIndex
          /\ \E ne \in 0 .. MaxWideElems : \E nt \in 0 .. (MaxWideElems - ne) :
                 elements \in MeshesOfSize(MaxWideIndex, ne, nt)
       \/ \E p \in ExampleMeshes :
              /\ nvertices = p[1]
              /\ elements = p[2]
    /\ vertices = <<>>
    /\ edges = <<>>
    /\ tris = <<>>
    /\ fault = "none"
    /\ built = {}
    /\ call = NoCall
    /\ NoLibraryObjects

SpecWide == InitWide /\ [][Next]_vars

-----------------------------------------------------------------------------
(* Direct calls of the two pure functions of connections.rs, on any edge   *)
(* and triangles; no Topology is involved.  A behaviour is one call.       *)

InitConn ==
    /\ nvertices = 0
    /\ elements = [edges |-> <<>>, tris |-> <<>>]
    /\ vertices = <<>>
    /\ edges = <<>>
    /\ tris = <<>>
    /\ fault = "none"
    /\ built = {}
    /\ call = NoCall
    /\ NoLibraryObjects

call_get_edge_position ==
    /\ call = NoCall
    /\ \E e \in AllEdges, t \in AllTris :
           call' = [fn |-> "get_edge_position", e |-> e, t |-> t,
                    result |-> get_edge_position(e, t)]
    /\ UNCHANGED <<nvertices, elements, vertices, edges, tris, fault, built, library_vars>>

call_get_common_edge ==
    /\ call = NoCall
    /\ \E t0 \in AllTris, t1 \in AllTris :
           call' = [fn |-> "get_common_edge", t0 |-> t0, t1 |-> t1,
                    result |-> get_common_edge(t0, t1)]
    /\ UNCHANGED <<nvertices, elements, vertices, edges, tris, fault, built, library_vars>>

NextConn == call_get_edge_position \/ call_get_common_edge

SpecConn == InitConn /\ [][NextConn]_vars

-----------------------------------------------------------------------------
(* Direct calls of the five record constructors of connections.rs, one     *)
(* per behaviour; the call and what it evaluated to are kept in call.      *)

\* The VertexToEdge values a caller can pass as neighbour.
VertexToEdgeRecords ==
    {VertexToEdge_new(i, q) : i \in 0 .. MaxRecordIndex, q \in 0 .. 1}

\* The EdgeToTri values a caller can pass as neighbour.
EdgeToTriRecords ==
    {EdgeToTri_new(i, q, r) : i \in 0 .. MaxRecordIndex, q \in 0 .. 2, r \in BOOLEAN}

call_VertexToEdge_new ==
    /\ call = NoCall
    /\ \E i \in 0 .. MaxRecordIndex, p \in 0 .. MaxPosition :
           call' = [fn |-> "VertexToEdge::new", edge_index |-> i, position |-> p,
                    result |-> VertexToEdge_new(i, p)]
    /\ UNCHANGED <<nvertices, elements, vertices, edges, tris, fault, built, library_vars>>

call_VertexToTri_new ==
    /\ call = NoCall
    /\ \E i \in 0 .. MaxRecordIndex, p \in 0 .. MaxPosition :
           call' = [fn |-> "VertexToTri::new", tri_index |-> i, position |-> p,
                    result |-> VertexToTri_new(i, p)]
    /\ UNCHANGED <<nvertices, elements, vertices, edges, tris, fault, built, library_vars>>

call_EdgeToEdge_new ==
    /\ call = NoCall
    /\ \E p \in 0 .. MaxPosition, n \in VertexToEdgeRecords :
           call' = [fn |-> "EdgeToEdge::new", position |-> p, neighbour |-> n,
                    result |-> EdgeToEdge_new(p, n)]
    /\ UNCHANGED <<nvertices, elements, vertices, edges, tris, fault, built, library_vars>>

call_EdgeToTri_new ==
    /\ call = NoCall
    /\ \E i \in 0 .. MaxRecordIndex, p \in 0 .. MaxPosition, r \in BOOLEAN :
           call' = [fn |-> "EdgeToTri::new", tri_index |-> i, position |-> p,
                    is_reversed |-> r, result |-> EdgeToTri_new(i, p, r)]
    /\ UNCHANGED <<nvertices, elements, vertices, edges, tris, fault, built, library_vars>>

call_TriToTri_new ==
    /\ call = NoCall
    /\ \E p \in 0 .. MaxPosition, n \in EdgeToTriRecords :
           call' = [fn |-> "TriToTri::new", position |-> p, neighbour |-> n,
                    result |-> TriToTri_new(p, n)]
    /\ UNCHANGED <<nvertices, elements, vertices, edges, tris, fault, built, library_vars>>

NextCtor ==
    \/ call_VertexToEdge_new
    \/ call_VertexToTri_new
    \/ call_EdgeToEdge_new
    \/ call_EdgeToTri_new
    \/ call_TriToTri_new

SpecCtor == InitConn /\ [][NextCtor]_vars

-----------------------------------------------------------------------------
(* tag.rs: a TagSet under register calls.                                  *)

\* TagSet::get_registered_indexes(name): self.tag_map.get(name).
TagSet_get_registered_indexes(tm, name) == tm[name]

\* Mutant: a name already in use gets a fresh list.
TagSet_register_replace(tm, name, idx) ==
    [tm EXCEPT ![name] = Some(<<idx>>)]

\* TagSet::register(name, idx): pushes on the list of a name in use, inserts
\* a one-element list under a new name.
TagSet_register(tm, name, idx) ==
    IF tm[name].some THEN [tm EXCEPT ![name] = Some(Append(tm[name].val, idx))]
    ELSE [tm EXCEPT ![name] = Some(<<idx>>)]

\* No Topology has been constructed and no direct call made.
NoTopology ==
    /\ nvertices = 0
    /\ elements = [edges |-> <<>>, tris |-> <<>>]
    /\ vertices = <<>>
    /\ edges = <<>>
    /\ tris = <<>>
    /\ built = {}
    /\ call = NoCall

InitTag ==
    /\ NoTopology
    /\ fault = "none"
    /\ NoLibraryObjects

register ==
    /\ Len(registered) < MaxRegisters
    /\ \E name \in TagNames, idx \in 0 .. MaxTagIndex :
           /\ tag_map' = TagSet_register(tag_map, name, idx)
           /\ registered' = Append(registered, <<name, idx>>)
    /\ UNCHANGED <<topology_vars, fault, mesh, tagged,
                   resources, cmd_history, cmd_queue, applied>>

NextTag == register

SpecTag == InitTag /\ [][NextTag]_vars

-----------------------------------------------------------------------------
(* mesh.rs: a Mesh3d under plain pushes on its public arrays and under the *)
(* six tagged pushes.  The topology code never reads this mesh; an element *)
(* is kept as an opaque value.                                             *)

\* The values an element pushed into the mesh may have.
ElementValues == {"p", "q"}

\* Mutant: the index is read after the element is pushed.
push_tagged_element_after(m, kind, element, name) ==
    LET pushed == Append(m[kind].elements, element)
        idx == Len(pushed)
    IN  [m EXCEPT ![kind] = [elements |-> pushed,
                             tags |-> TagSet_register(m[kind].tags, name, idx)]]

\* push_tagged_element(&mut elements, &mut tags, element, name), on the
\* array and the tag set of one kind.
push_tagged_element(m, kind, element, name) ==
    LET idx == Len(m[kind].elements)
        pushed == Append(m[kind].elements, element)
    IN  [m EXCEPT ![kind] = [elements |-> pushed,
                             tags |-> TagSet_register(m[kind].tags, name, idx)]]

\* The number of elements pushed so far, over the six arrays.
RECURSIVE Pushes(_, _)
Pushes(m, ks) ==
    IF ks = {} THEN 0
    ELSE LET k == CHOOSE x \in ks : TRUE
         IN  Len(m[k].elements) + Pushes(m, ks \ {k})

InitMesh ==
    /\ NoTopology
    /\ fault = "none"
    /\ NoLibraryObjects

\* mesh.<kind>.push(element), on a public array.
push_plain ==
    /\ Pushes(mesh, Kinds) < MaxPushes
    /\ \E kind \in Kinds, element \in ElementValues :
           mesh' = [mesh EXCEPT ![kind].elements = Append(@, element)]
    /\ UNCHANGED <<topology_vars, fault, tag_map, registered, tagged,
                   resources, cmd_history, cmd_queue, applied>>

\* One of the six tagged pushes, on its own array and tag set.
PushTagged(kind) ==
    /\ Pushes(mesh, Kinds) < MaxPushes
    /\ \E element \in ElementValues, name \in TagNames :
           /\ mesh' = push_tagged_element(mesh, kind, element, name)
           /\ tagged' = Append(tagged, [kind |-> kind, name |-> name,
                                        element |-> element,
                                        at |-> Len(mesh[kind].elements)])
    /\ UNCHANGED <<topology_vars, fault, tag_map, registered,
                   resources, cmd_history, cmd_queue, applied>>

push_tagged_vertex == PushTagged("vertices")

push_tagged_edge == PushTagged("edges")

push_tagged_triangle == PushTagged("triangles")

push_tagged_quadrangle == PushTagged("quadrangles")

push_tagged_tetrahedron == PushTagged("tetrahedra")

push_tagged_hexahedron == PushTagged("hexahedra")

NextMesh ==
    \/ push_plain
    \/ push_tagged_vertex
    \/ push_tagged_edge
    \/ push_tagged_triangle
    \/ push_tagged_quadrangle
    \/ push_tagged_tetrahedron
    \/ push_tagged_hexahedron

SpecMesh == InitMesh /\ [][NextMesh]_vars

-----------------------------------------------------------------------------
(* interpreter.rs: resources, commands and the command queue.  A float is  *)
(* kept as an integer: the code copies floats and never computes on them.  *)

\* enum Resource. The payloads have a field name each, so that resources of
\* two kinds are records over different fields.
UInt(n) == [kind |-> "UInt", uint |-> n]

VecFloat(v) == [kind |-> "VecFloat", vec |-> v]

\* Resource::Mesh2d(Box::new(Mesh2d::default())): only its vertices are
\* ever touched by the interpreter.
Mesh2d_new == [kind |-> "Mesh2d", vertices |-> <<>>]

Mesh3d_new == [kind |-> "Mesh3d"]

\* The inputs of NewVecFloat: a pair of coordinates and a vector too short
\* to be one.
FloatVecs == {<<0, 1>>, <<6>>}

\* The ids the commands name.
CmdIds == {"MyCoords", "MyMesh"}

\* enum Cmd. The input of NewVecFloat is the field input_vec, for the same
\* reason.
Cmds ==
    {[op |-> "NewUInt", input |-> n, output_id |-> id] :
         n \in 0 .. MaxUInt, id \in CmdIds}
    \cup {[op |-> "NewVecFloat", input_vec |-> v, output_id |-> id] :
              v \in FloatVecs, id \in CmdIds}
    \cup {[op |-> "NewMesh2d", output_id |-> id] : id \in CmdIds}
    \cup {[op |-> "NewMesh3d", output_id |-> id] : id \in CmdIds}
    \cup {[op |-> "PushVertex2d", mesh_id |-> m, coords_id |-> c] :
              m \in CmdIds, c \in CmdIds}
    \cup {[op |-> "GetVertex2d", mesh_id |-> m, idx_id |-> i, output_id |-> o] :
              m \in CmdIds, i \in CmdIds, o \in {"MyInt"}}

(* The methods are folded over a record [resources, fault], as the build   *)
(* passes are: a method called after a panic does nothing.                 *)

\* Mutant: an id in use is accepted.
panic_if_defined_never(st, id) == st

\* panic_if_defined(id).
panic_if_defined(st, id) ==
    IF st.fault # "none" THEN st
    ELSE IF st.resources[id].some THEN [st EXCEPT !.fault = "defined"]
    ELSE st

\* HashMap::insert(id, resource).
Insert(st, id, resource) ==
    IF st.fault # "none" THEN st
    ELSE [st EXCEPT !.resources[id] = Some(resource)]

Interpreter_new_uint(st, input, output_id) ==
    Insert(panic_if_defined(st, output_id), output_id, UInt(input))

Interpreter_new_vec_float(st, input, output_id) ==
    Insert(panic_if_defined(st, output_id), output_id, VecFloat(input))

Interpreter_new_mesh2d(st, output_id) ==
    Insert(panic_if_defined(st, output_id), output_id, Mesh2d_new)

Interpreter_new_mesh3d(st, output_id) ==
    Insert(panic_if_defined(st, output_id), output_id, Mesh3d_new)

\* push_vertex2d(mesh_id, coords_id): get_mut_vec_float, vec[0] and vec[1],
\* get_mut_mesh2d, then the push; each may panic.
Interpreter_push_vertex2d(st, mesh_id, coords_id) ==
    IF st.fault # "none" THEN st
    ELSE IF ~st.resources[coords_id].some THEN [st EXCEPT !.fault = "undefined"]
    ELSE IF st.resources[coords_id].val.kind # "VecFloat" THEN [st EXCEPT !.fault = "kind"]
    ELSE IF Len(st.resources[coords_id].val.vec) < 2 THEN [st EXCEPT !.fault = "out_of_bounds"]
    ELSE IF ~st.resources[mesh_id].some THEN [st EXCEPT !.fault = "undefined"]
    ELSE IF st.resources[mesh_id].val.kind # "Mesh2d" THEN [st EXCEPT !.fault = "kind"]
    ELSE LET vec == st.resources[coords_id].val.vec
         IN  [st EXCEPT !.resources[mesh_id].val.vertices = Append(@, <<vec[1], vec[2]>>)]

\* apply_cmd(cmd).
Interpreter_apply_cmd(st, cmd) ==
    CASE cmd.op = "NewUInt" -> Interpreter_new_uint(st, cmd.input, cmd.output_id)
      [] cmd.op = "NewVecFloat" -> Interpreter_new_vec_float(st, cmd.input_vec, cmd.output_id)
      [] cmd.op = "NewMesh2d" -> Interpreter_new_mesh2d(st, cmd.output_id)
      [] cmd.op = "NewMesh3d" -> Interpreter_new_mesh3d(st, cmd.output_id)
      [] cmd.op = "PushVertex2d" -> Interpreter_push_vertex2d(st, cmd.mesh_id, cmd.coords_id)
      [] OTHER -> IF st.fault # "none" THEN st ELSE [st EXCEPT !.fault = "unsupported"]

\* Mutant: the command is filed in the history before it is applied.
RECURSIVE DrainLoop_early(_, _)
DrainLoop_early(st, n) ==
    IF n = 0 \/ st.fault # "none" THEN st
    ELSE LET cmd == Head(st.cmd_queue)
             r == Interpreter_apply_cmd([resources |-> st.resources, fault |-> "none"], cmd)
             popped == [st EXCEPT !.cmd_queue = Tail(@), !.cmd_history = Append(@, cmd),
                                  !.resources = r.resources, !.fault = r.fault]
         IN  IF r.fault # "none" THEN popped
             ELSE DrainLoop_early([popped EXCEPT !.applied = Append(@, cmd)], n - 1)

\* Mutant: the queue is served from its back.
RECURSIVE DrainLoop_lifo(_, _)
DrainLoop_lifo(st, n) ==
    IF n = 0 \/ st.fault # "none" THEN st
    ELSE LET cmd == st.cmd_queue[Len(st.cmd_queue)]
             r == Interpreter_apply_cmd([resources |-> st.resources, fault |-> "none"], cmd)
             popped == [st EXCEPT !.cmd_queue = SubSeq(@, 1, Len(@) - 1),
                                  !.resources = r.resources, !.fault = r.fault]
         IN  IF r.fault # "none" THEN popped
             ELSE DrainLoop_lifo([popped EXCEPT !.cmd_history = Append(@, cmd),
                                                !.applied = Append(@, cmd)], n - 1)

\* The loop of apply_cmds_in_queue with n rounds to go: pop_front, apply_cmd,
\* push_back on the history. A panic in apply_cmd unwinds out of the loop
\* with the command popped and dropped.
RECURSIVE DrainLoop(_, _)
DrainLoop(st, n) ==
    IF n = 0 \/ st.fault # "none" THEN st
    ELSE LET cmd == Head(st.cmd_queue)
             r == Interpreter_apply_cmd([resources |-> st.resources, fault |-> "none"], cmd)
             popped == [st EXCEPT !.cmd_queue = Tail(@),
                                  !.resources = r.resources, !.fault = r.fault]
         IN  IF r.fault # "none" THEN popped
             ELSE DrainLoop([popped EXCEPT !.cmd_history = Append(@, cmd),
                                           !.applied = Append(@, cmd)], n - 1)

InitInterp ==
    /\ NoTopology
    /\ fault = "none"
    /\ NoLibraryObjects

\* The commands the Interpreter has taken so far.
Taken == Len(cmd_queue) + Len(cmd_history)

\* push_cmd(cmd).
push_cmd ==
    /\ fault = "none"
    /\ Taken < MaxCmds
    /\ \E cmd \in Cmds : cmd_queue' = Append(cmd_queue, cmd)
    /\ UNCHANGED <<topology_vars, fault, tag_map, registered, mesh, tagged,
                   resources, cmd_history, applied>>

\* apply_cmds_in_queue(): the number of rounds is the length of the queue
\* at the call.
apply_cmds_in_queue ==
    /\ fault = "none"
    /\ LET st == DrainLoop([resources |-> resources, fault |-> "none",
                            cmd_queue |-> cmd_queue, cmd_history |-> cmd_history,
                            applied |-> applied], Len(cmd_queue))
       IN  /\ resources' = st.resources
           /\ fault' = st.fault
           /\ cmd_queue' = st.cmd_queue
           /\ cmd_history' = st.cmd_history
           /\ applied' = st.applied
    /\ UNCHANGED <<topology_vars, tag_map, registered, mesh, tagged>>

NextInterp == push_cmd \/ apply_cmds_in_queue

SpecInterp == InitInterp /\ [][NextInterp]_vars

-----------------------------------------------------------------------------
(* Direct calls of the four methods of the Interpreter that create a       *)
(* resource, any number of them; the last call is kept in call.            *)

\* The part of a call that is the same for the four methods.
NewResource(st, made) ==
    /\ resources' = st.resources
    /\ fault' = st.fault
    /\ call' = made
    /\ UNCHANGED <<nvertices, elements, vertices, edges, tris, built,
                   tag_map, registered, mesh, tagged, cmd_history, cmd_queue, applied>>

new_uint ==
    /\ fault = "none"
    /\ \E input \in 0 .. MaxUInt, output_id \in ResourceIds :
           NewResource(Interpreter_new_uint([resources |-> resources, fault |-> "none"],
                                            input, output_id),
                       [fn |-> "new_uint", input |-> input, output_id |-> output_id])

new_vec_float ==
    /\ fault = "none"
    /\ \E input \in FloatVecs, output_id \in ResourceIds :
           NewResource(Interpreter_new_vec_float([resources |-> resources, fault |-> "none"],
                                                 input, output_id),
                       [fn |-> "new_vec_float", input_vec |-> input, output_id |-> output_id])

new_mesh2d ==
    /\ fault = "none"
    /\ \E output_id \in ResourceIds :
           NewResource(Interpreter_new_mesh2d([resources |-> resources, fault |-> "none"],
                                              output_id),
                       [fn |-> "new_mesh2d", output_id |-> output_id])

new_mesh3d ==
    /\ fault = "none"
    /\ \E output_id \in ResourceIds :
           NewResource(Interpreter_new_mesh3d([resources |-> resources, fault |-> "none"],
                                              output_id),
                       [fn |-> "new_mesh3d", output_id |-> output_id])

NextNew == new_uint \/ new_vec_float \/ new_mesh2d \/ new_mesh3d

SpecNew == InitInterp /\ [][NextNew]_vars

-----------------------------------------------------------------------------
(* Vocabulary of the properties.                                           *)

\* The number of positions of seq that hold x.
Count(seq, x) == Cardinality({k \in DOMAIN seq : seq[k] = x})

\* The set of the members of seq.
Range(seq) == {seq[k] : k \in DOMAIN seq}

\* The labels of slot s of an element and of canonical edge k of a triangle.
VLabel(s) == <<"V0", "V1", "V2">>[s + 1]

ELabel(k) == <<"E0", "E1", "E2">>[k + 1]

\* Canonical edge k of triangle t, in the triangle's order:
\* E0 = (t0, t1), E1 = (t1, t2), E2 = (t2, t0).
Canonical(t, k) == <<t.v[k], t.v[(k + 1) % 3]>>

\* Edge (u0, u1) equals canonical edge k of t in order, or reversed.
Forward(e, t, k) == <<e.v[0], e.v[1]>> = Canonical(t, k)

Backward(e, t, k) == <<e.v[1], e.v[0]>> = Canonical(t, k)

Coincides(e, t, k) == Forward(e, t, k) \/ Backward(e, t, k)

\* Indices of the mesh's edges and triangles.
EdgeIdx == 0 .. (Len(elements.edges) - 1)

TriIdx == 0 .. (Len(elements.tris) - 1)

MeshEdge(i) == elements.edges[i + 1]

MeshTri(j) == elements.tris[j + 1]

\* The labels and the edge positions.
EdgeLabels == {"E0", "E1", "E2"}

EdgePositions == {EdgePosition(l, r) : l \in EdgeLabels, r \in BOOLEAN}

\* The endpoints of mesh edge i, as a set.
Ends(i) == {MeshEdge(i).v[0], MeshEdge(i).v[1]}

\* The positions of an edge_connections list that refer to edge i1, and the
\* positions of a tri_connections list that refer to triangle j.
EdgeRefs(ec, i1) == {k \in DOMAIN ec : ec[k].neighbour.edge_index = i1}

TriRefs(tc, j) == {k \in DOMAIN tc : tc[k].tri_index = j}

\* The repeated vertices of an element make it degenerate.
DegenerateEdge(e) == e.v[0] = e.v[1]

DegenerateTri(t) == Cardinality({t.v[0], t.v[1], t.v[2]}) < 3

\* Every vertex index held by an element is below nvertices.
WellFormed ==
    /\ \A i \in EdgeIdx : \A s \in 0 .. 1 : MeshEdge(i).v[s] < nvertices
    /\ \A j \in TriIdx : \A s \in 0 .. 2 : MeshTri(j).v[s] < nvertices

-----------------------------------------------------------------------------
(* C1.  Length invariant: once build_vertices has completed, vertices has  *)
(* nvertices entries; once build_edges has completed, edges has one entry  *)
(* per mesh edge; once build_triangles has completed, tris has one entry   *)
(* per mesh triangle; whatever the arrays held before the calls.           *)
C1_LengthInvariant ==
    /\ "vertices" \in built => Len(vertices) = nvertices
    /\ "edges" \in built => Len(edges) = Len(elements.edges)
    /\ "tris" \in built => Len(tris) = Len(elements.tris)

\* All three passes have completed on a mesh with vertices, edges and triangles.
C1_Witness ==
    /\ built = {"vertices", "edges", "tris"}
    /\ nvertices > 0 /\ Len(elements.edges) > 0 /\ Len(elements.tris) > 0
    /\ Len(vertices) = nvertices /\ Len(edges) > 0 /\ Len(tris) > 0

(* C2.  Vertex incidence is exact: after build_vertices on a well-formed   *)
(* mesh, incident_edges of vertex v holds exactly one record {i, s} for    *)
(* each edge i and slot s with edges[i].v[s] = v and nothing else, and     *)
(* incident_tris likewise for triangles; so a vertex referenced k times by *)
(* edges and m times by triangles has k and m entries.                     *)
C2_VertexIncidence ==
    ("vertices" \in built /\ WellFormed) =>
        \A v \in 0 .. (nvertices - 1) :
            LET ie == vertices[v + 1].incident_edges
                it == vertices[v + 1].incident_tris
                eslots == {p \in EdgeIdx \X (0 .. 1) : MeshEdge(p[1]).v[p[2]] = v}
                tslots == {p \in TriIdx \X (0 .. 2) : MeshTri(p[1]).v[p[2]] = v}
            IN  /\ \A p \in EdgeIdx \X (0 .. 1) :
                       Count(ie, [edge_index |-> p[1], connecting_vertex |-> VLabel(p[2])])
                           = IF p \in eslots THEN 1 ELSE 0
                /\ Range(ie) = {[edge_index |-> p[1], connecting_vertex |-> VLabel(p[2])] :
                                    p \in eslots}
                /\ Len(ie) = Cardinality(eslots)
                /\ \A p \in TriIdx \X (0 .. 2) :
                       Count(it, [tri_index |-> p[1], connecting_vertex |-> VLabel(p[2])])
                           = IF p \in tslots THEN 1 ELSE 0
                /\ Range(it) = {[tri_index |-> p[1], connecting_vertex |-> VLabel(p[2])] :
                                    p \in tslots}
                /\ Len(it) = Cardinality(tslots)

\* build_vertices has completed on a mesh with an edge and a triangle, and
\* some vertex has an incident edge and an incident triangle.
C2_Witness ==
    /\ "vertices" \in built /\ WellFormed
    /\ Len(elements.edges) > 0 /\ Len(elements.tris) > 0
    /\ \E v \in 1 .. Len(vertices) :
           Len(vertices[v].incident_edges) > 0 /\ Len(vertices[v].incident_tris) > 0

(* C3.  When get_edge_position returns Some{L, r}: L is the lowest label   *)
(* whose canonical edge equals the edge in either order; r = false exactly *)
(* when the edge equals canonical edge L in order; r = true exactly when   *)
(* the reversed edge does and the edge itself does not.  For a triangle    *)
(* (v0, v1, v2) of three different vertices, edge (v1, v0) gives           *)
(* {E0, true}, edge (v0, v1) gives {E0, false}, edge (v0, v2) {E2, true}.  *)
C3_MatcherSome ==
    (call.fn = "get_edge_position" /\ call.result.some) =>
        LET e == call.e
            t == call.t
            p == call.result.val
            k == LabelIndex(p.label)
        IN  /\ p.label \in {"E0", "E1", "E2"}
            /\ Coincides(e, t, k)
            /\ \A l \in 0 .. 2 : l < k => ~Coincides(e, t, l)
            /\ (p.is_reversed = FALSE) <=> Forward(e, t, k)
            /\ (p.is_reversed = TRUE) <=> (Backward(e, t, k) /\ ~Forward(e, t, k))
            /\ Cardinality({t.v[0], t.v[1], t.v[2]}) = 3 =>
                   /\ e = Edge(t.v[1], t.v[0]) => p = EdgePosition("E0", TRUE)
                   /\ e = Edge(t.v[0], t.v[1]) => p = EdgePosition("E0", FALSE)
                   /\ e = Edge(t.v[0], t.v[2]) => p = EdgePosition("E2", TRUE)

\* The matcher was called with edge (0, 2) and triangle (0, 1, 2) and
\* answered {E2, true}.
C3_Witness ==
    /\ call.fn = "get_edge_position"
    /\ call.e = Edge(0, 2) /\ call.t = Tri(0, 1, 2)
    /\ call.result = Some(EdgePosition("E2", TRUE))

(* C4.  get_edge_position returns None exactly when the edge, in neither   *)
(* order, equals one of (t0, t1), (t1, t2), (t2, t0); an edge with exactly *)
(* one endpoint among the triangle's vertices yields None.                 *)
C4_MatcherNone ==
    call.fn = "get_edge_position" =>
        LET e == call.e
            t == call.t
            tv == {t.v[0], t.v[1], t.v[2]}
        IN  /\ (call.result = None) <=> (\A k \in 0 .. 2 : ~Coincides(e, t, k))
            /\ ((e.v[0] \in tv) # (e.v[1] \in tv)) => call.result = None

\* The matcher was called with an edge that has one endpoint in the triangle
\* and answered None.
C4_Witness ==
    /\ call.fn = "get_edge_position"
    /\ call.e = Edge(0, 3) /\ call.t = Tri(0, 1, 2)
    /\ call.result = None

(* C5.  get_common_edge(t0, t1) returns Some((L0, P)) with L0 the lowest   *)
(* label of t0 whose canonical edge, in t0's order, the matcher finds in   *)
(* t1, and P that matcher result; it returns None exactly when the matcher *)
(* returns None for the three canonical edges of t0.  Triangles (0, 1, 2)  *)
(* and (3, 2, 1) give (E1, {E1, true}).                                    *)
C5_CommonEdgeFirstHit ==
    call.fn = "get_common_edge" =>
        LET t0 == call.t0
            t1 == call.t1
            m(k) == get_edge_position(Edge(Canonical(t0, k)[1], Canonical(t0, k)[2]), t1)
            hits == {k \in 0 .. 2 : m(k).some}
        IN  /\ (call.result = None) <=> (hits = {})
            /\ hits # {} =>
                   \E k \in hits :
                       /\ \A l \in hits : k <= l
                       /\ call.result = Some(<<ELabel(k), m(k).val>>)
            /\ (t0 = Tri(0, 1, 2) /\ t1 = Tri(3, 2, 1)) =>
                   call.result = Some(<<"E1", EdgePosition("E1", TRUE)>>)

\* The extractor was called on two triangles that share two canonical edges
\* of t0 and returned the one of lowest label.
C5_Witness ==
    /\ call.fn = "get_common_edge"
    /\ call.t0 = Tri(0, 1, 2) /\ call.t1 = Tri(2, 1, 0)
    /\ call.result = Some(<<"E0", EdgePosition("E1", TRUE)>>)

(* C6.  After build_triangles, for every ordered pair of distinct         *)
(* triangles (i0, i1), tris[i0].tri_connections contains the record        *)
(* {L0, {i1, P}} exactly when get_common_edge(triangle i0, triangle i1) is *)
(* Some((L0, P)), and it contains no record that does not arise this way.  *)
C6_TriAdjacency ==
    "tris" \in built =>
        \A i0 \in TriIdx :
            LET tc == tris[i0 + 1].tri_connections
                rec(L0, i1, P) == [connecting_edge |-> L0,
                                   neighbour |-> [tri_index |-> i1, connecting_edge |-> P]]
            IN  /\ \A i1 \in TriIdx \ {i0} : \A L0 \in EdgeLabels : \A P \in EdgePositions :
                       (rec(L0, i1, P) \in Range(tc))
                           <=> (get_common_edge(MeshTri(i0), MeshTri(i1)) = Some(<<L0, P>>))
                /\ \A r \in Range(tc) :
                       \E i1 \in TriIdx \ {i0} :
                           /\ r.neighbour.tri_index = i1
                           /\ get_common_edge(MeshTri(i0), MeshTri(i1))
                                  = Some(<<r.connecting_edge, r.neighbour.connecting_edge>>)

\* build_triangles has completed on two triangles whose common edge has a
\* different label in each (the example of build_triangles' documentation).
C6_Witness ==
    /\ "tris" \in built
    /\ elements.tris = <<Tri(0, 1, 3), Tri(1, 2, 3)>>
    /\ tris[1].tri_connections
           = <<[connecting_edge |-> "E1",
                neighbour |-> [tri_index |-> 1,
                               connecting_edge |-> EdgePosition("E2", TRUE)]]>>

(* C7.  For the mesh of 4 vertices with the triangles (0, 1, 2) and        *)
(* (2, 3, 0), after build_triangles each of tris[0] and tris[1] has one    *)
(* tri_connections entry; the entry of tris[0] names triangle 1, the entry *)
(* of tris[1] names triangle 0, and both are flagged reversed.             *)
C7_Square ==
    (/\ "tris" \in built
     /\ nvertices = 4
     /\ elements.tris = <<Tri(0, 1, 2), Tri(2, 3, 0)>>) =>
        /\ Len(tris[1].tri_connections) = 1
        /\ Len(tris[2].tri_connections) = 1
        /\ tris[1].tri_connections[1].neighbour.tri_index = 1
        /\ tris[2].tri_connections[1].neighbour.tri_index = 0
        /\ tris[1].tri_connections[1].neighbour.connecting_edge.is_reversed = TRUE
        /\ tris[2].tri_connections[1].neighbour.connecting_edge.is_reversed = TRUE

\* build_triangles has completed on the unit square.
C7_Witness ==
    /\ "tris" \in built
    /\ nvertices = 4
    /\ elements.tris = <<Tri(0, 1, 2), Tri(2, 3, 0)>>
    /\ Len(tris) = 2
    /\ Len(tris[1].tri_connections) = 1

(* C8.  After build_edges, for every ordered pair of distinct edges        *)
(* (i0, i1) and slots a, b, edges[i0].edge_connections holds the record    *)
(* {a, {i1, b}} exactly once if endpoint a of edge i0 equals endpoint b of *)
(* edge i1 and not at all otherwise, and holds no other record.  Two       *)
(* distinct edges (each with two different endpoints) that share a single  *)
(* endpoint yield one record each; two with the same two endpoints yield   *)
(* two records each.                                                       *)
C8_EdgeAdjacency ==
    "edges" \in built =>
        \A i0 \in EdgeIdx :
            LET ec == edges[i0 + 1].edge_connections
                rec(a, i1, b) == [connecting_vertex |-> VLabel(a),
                                  neighbour |-> [edge_index |-> i1,
                                                 connecting_vertex |-> VLabel(b)]]
            IN  /\ \A i1 \in EdgeIdx \ {i0} : \A a \in 0 .. 1 : \A b \in 0 .. 1 :
                       Count(ec, rec(a, i1, b))
                           = IF MeshEdge(i0).v[a] = MeshEdge(i1).v[b] THEN 1 ELSE 0
                /\ \A r \in Range(ec) :
                       \E i1 \in EdgeIdx \ {i0} : \E a \in 0 .. 1 : \E b \in 0 .. 1 :
                           r = rec(a, i1, b)
                /\ \A i1 \in EdgeIdx \ {i0} :
                       (Cardinality(Ends(i0)) = 2 /\ Cardinality(Ends(i1)) = 2) =>
                           /\ Cardinality(Ends(i0) \cap Ends(i1)) = 1
                                  => Cardinality(EdgeRefs(ec, i1)) = 1
                           /\ Ends(i0) = Ends(i1)
                                  => Cardinality(EdgeRefs(ec, i1)) = 2

\* build_edges has completed on two edges with the same endpoints in
\* opposite order and a third edge that meets them at vertex 1: the first
\* two hold two records for each other and one for the third.
C8_Witness ==
    /\ "edges" \in built
    /\ elements.edges = <<Edge(0, 1), Edge(1, 0), Edge(1, 2)>>
    /\ Len(edges[1].edge_connections) = 3
    /\ Len(edges[2].edge_connections) = 3
    /\ Len(edges[3].edge_connections) = 2

(* C9.  After build_edges, for all distinct edges i0 and i1 that share     *)
(* exactly one endpoint, edges[i0].edge_connections contains a record      *)
(* {a, {i1, b}} and edges[i1].edge_connections the mirrored {b, {i0, a}}.  *)
C9_EndpointSymmetry ==
    "edges" \in built =>
        \A i0 \in EdgeIdx : \A i1 \in EdgeIdx \ {i0} :
            Cardinality(Ends(i0) \cap Ends(i1)) = 1 =>
                \E a \in 0 .. 1 : \E b \in 0 .. 1 :
                    /\ [connecting_vertex |-> VLabel(a),
                        neighbour |-> [edge_index |-> i1, connecting_vertex |-> VLabel(b)]]
                           \in Range(edges[i0 + 1].edge_connections)
                    /\ [connecting_vertex |-> VLabel(b),
                        neighbour |-> [edge_index |-> i0, connecting_vertex |-> VLabel(a)]]
                           \in Range(edges[i1 + 1].edge_connections)

\* build_edges has completed on the edges (0, 1), (1, 2) and (2, 0), any
\* two of which meet at one vertex: each names the two others.
C9_Witness ==
    /\ "edges" \in built
    /\ elements.edges = <<Edge(0, 1), Edge(1, 2), Edge(2, 0)>>
    /\ Len(edges[1].edge_connections) = 2
    /\ edges[2].edge_connections[1].neighbour.edge_index = 0
    /\ edges[3].edge_connections[2].neighbour.edge_index = 1

(* C10.  After build_edges, for every edge i and triangle j,               *)
(* edges[i].tri_connections contains the record {j, P} exactly when        *)
(* get_edge_position(edge i, triangle j) is Some(P); it holds at most one  *)
(* record per triangle and none when the matcher returns None.             *)
C10_EdgeToTri ==
    "edges" \in built =>
        \A i \in EdgeIdx :
            LET tc == edges[i + 1].tri_connections
            IN  /\ \A j \in TriIdx :
                       LET m == get_edge_position(MeshEdge(i), MeshTri(j))
                       IN  /\ \A P \in EdgePositions :
                                  ([tri_index |-> j, connecting_edge |-> P] \in Range(tc))
                                      <=> (m = Some(P))
                           /\ Cardinality(TriRefs(tc, j)) <= 1
                           /\ m = None => TriRefs(tc, j) = {}
                /\ \A k \in DOMAIN tc : tc[k].tri_index \in TriIdx

\* build_edges has completed on an edge that is a reversed edge of a
\* triangle of the mesh.
C10_Witness ==
    /\ "edges" \in built
    /\ elements.edges = <<Edge(0, 1)>>
    /\ elements.tris = <<Tri(1, 0, 3)>>
    /\ edges[1].tri_connections
           = <<[tri_index |-> 0, connecting_edge |-> EdgePosition("E0", TRUE)]>>

(* C11.  No self-adjacency: in every state, after any sequence of build   *)
(* calls on any mesh, no record of edges[i].edge_connections names edge i  *)
(* and no record of tris[i].tri_connections names triangle i, degenerate   *)
(* edges (v, v) and triangles with a repeated vertex included.             *)
C11_NoSelfAdjacency ==
    /\ \A i \in 1 .. Len(edges) :
           \A k \in DOMAIN edges[i].edge_connections :
               edges[i].edge_connections[k].neighbour.edge_index # i - 1
    /\ \A i \in 1 .. Len(tris) :
           \A k \in DOMAIN tris[i].tri_connections :
               tris[i].tri_connections[k].neighbour.tri_index # i - 1

\* build_edges and build_triangles have completed on a mesh with a degenerate
\* edge next to another edge and a triangle with a repeated vertex; the
\* degenerate edge holds records, none for itself.
C11_Witness ==
    /\ {"edges", "tris"} \subseteq built
    /\ elements = [edges |-> <<Edge(1, 1), Edge(1, 2)>>, tris |-> <<Tri(0, 0, 1)>>]
    /\ Len(edges[1].edge_connections) = 2
    /\ Len(tris[1].tri_connections) = 0

-----------------------------------------------------------------------------
\* C12: on an unchanged mesh a build method called again after it has
\* completed once returns normally and leaves its array exactly as the
\* first call left it (same records, same order, same length): a rebuild
\* never adds to the records of the call before.
C12_Idempotence ==
    [][ /\ (build_vertices /\ "vertices" \in built)
            => (fault' = "none" /\ vertices' = vertices)
        /\ (build_edges /\ "edges" \in built)
            => (fault' = "none" /\ edges' = edges)
        /\ (build_triangles /\ "tris" \in built)
            => (fault' = "none" /\ tris' = tris) ]_vars

\* The three arrays are built and hold records; every build method is
\* enabled here and a call of it ends in this same state.
C12_Witness ==
    /\ built = {"vertices", "edges", "tris"}
    /\ fault = "none"
    /\ elements = [edges |-> <<Edge(0, 1), Edge(1, 2)>>, tris |-> <<Tri(0, 1, 2)>>]
    /\ Len(vertices[2].incident_edges) = 2
    /\ Len(vertices[2].incident_tris) = 1
    /\ Len(edges[1].edge_connections) = 1
    /\ Len(edges[1].tri_connections) = 1
    /\ tris = <<TriTopology_new>>
    /\ ENABLED build_vertices /\ ENABLED build_edges /\ ENABLED build_triangles

-----------------------------------------------------------------------------
\* C13: on a well-formed mesh, after any sequence of build calls (any
\* order, any number of times) each array that was built at least once
\* holds what a single call of its build method produces on a freshly
\* constructed Topology, and each array that was never built is empty.
C13_AnyOrder ==
    WellFormed =>
        /\ fault = "none"
        /\ vertices = IF "vertices" \in built
                      THEN VerticesPass(<<>>, nvertices, elements).arr ELSE <<>>
        /\ edges = IF "edges" \in built
                   THEN EdgesPass(<<>>, elements).arr ELSE <<>>
        /\ tris = IF "tris" \in built
                  THEN TrianglesPass(<<>>, elements).arr ELSE <<>>

\* Vertices and edges are built with records, in either order, and the
\* triangle array was never built although the mesh holds a triangle.
C13_Witness ==
    /\ WellFormed
    /\ built = {"vertices", "edges"}
    /\ elements = [edges |-> <<Edge(0, 1)>>, tris |-> <<Tri(0, 1, 2)>>]
    /\ Len(vertices) = nvertices
    /\ Len(vertices[1].incident_edges) = 1
    /\ Len(edges[1].tri_connections) = 1
    /\ tris = <<>>

-----------------------------------------------------------------------------
\* C14: build_vertices changes no array but vertices, build_edges none but
\* edges, build_triangles none but tris; none of them changes nvertices or
\* the edge and triangle arrays of the mesh.
C14_Frame ==
    [][ /\ build_vertices => UNCHANGED <<nvertices, elements, edges, tris>>
        /\ build_edges => UNCHANGED <<nvertices, elements, vertices, tris>>
        /\ build_triangles => UNCHANGED <<nvertices, elements, vertices, edges>> ]_vars

\* The three passes have run over a mesh of one edge and one triangle:
\* each array holds the records of its own pass and the mesh is the one the
\* Topology was constructed over.
C14_Witness ==
    /\ built = {"vertices", "edges", "tris"}
    /\ nvertices = 3
    /\ elements = [edges |-> <<Edge(1, 0)>>, tris |-> <<Tri(0, 1, 2)>>]
    /\ Len(vertices[1].incident_edges) = 1
    /\ Len(vertices[1].incident_tris) = 1
    /\ Len(edges[1].tri_connections) = 1
    /\ tris = <<TriTopology_new>>

-----------------------------------------------------------------------------
\* C15: after build_triangles, on any mesh, for all distinct triangle
\* indices i0 and i1 the list of triangle i0 holds a record naming i1
\* exactly when the list of triangle i1 holds a record naming i0.
C15_Symmetry ==
    "tris" \in built =>
        \A i0 \in TriIdx : \A i1 \in TriIdx \ {i0} :
            (\E k \in DOMAIN tris[i0 + 1].tri_connections :
                 tris[i0 + 1].tri_connections[k].neighbour.tri_index = i1)
            <=> (\E k \in DOMAIN tris[i1 + 1].tri_connections :
                     tris[i1 + 1].tri_connections[k].neighbour.tri_index = i0)

\* Two triangles that share the edge 2-0, the last edge of the first and
\* the first edge of the second: each lists the other.
C15_Witness ==
    /\ "tris" \in built
    /\ elements.tris = <<Tri(0, 1, 2), Tri(2, 0, 3)>>
    /\ tris[1].tri_connections =
           <<TriToTri_new(2, EdgeToTri_new(1, 0, FALSE))>>
    /\ tris[2].tri_connections =
           <<TriToTri_new(0, EdgeToTri_new(0, 2, FALSE))>>

-----------------------------------------------------------------------------
\* C16: for two triangles t0 and t1, each with three pairwise distinct
\* vertex indices, whose vertex sets differ, get_edge_position matches at
\* most one of the three canonical edges of t0 in t1, so the hit that
\* get_common_edge returns is the only one.
C16_UniqueCommonEdge ==
    (/\ call.fn = "get_common_edge"
     /\ ~DegenerateTri(call.t0) /\ ~DegenerateTri(call.t1)
     /\ {call.t0.v[s] : s \in 0 .. 2} # {call.t1.v[s] : s \in 0 .. 2}) =>
        LET t0 == call.t0
            t1 == call.t1
            m(k) == get_edge_position(Edge(Canonical(t0, k)[1], Canonical(t0, k)[2]), t1)
            hits == {k \in 0 .. 2 : m(k).some}
        IN  /\ Cardinality(hits) <= 1
            /\ \A k \in hits : call.result = Some(<<ELabel(k), m(k).val>>)
            /\ hits = {} => call.result = None

\* The extractor was called on two non-degenerate triangles with the one
\* common edge 0-1 and returned it.
C16_Witness ==
    /\ call.fn = "get_common_edge"
    /\ call.t0 = Tri(0, 1, 2) /\ call.t1 = Tri(1, 0, 3)
    /\ call.result = Some(<<"E0", EdgePosition("E0", TRUE)>>)

-----------------------------------------------------------------------------
\* C17: VertexToEdge::new(i, p) and EdgeToEdge::new(p, n) panic for every
\* p > 1, VertexToTri::new(i, p), EdgeToTri::new(i, p, r) and
\* TriToTri::new(p, n) panic for every p > 2; on the other positions each
\* returns the record whose label has index p and whose index, reversal
\* flag or neighbour is the argument, unchanged. A panicking call returns
\* no record.
C17_LabelRange ==
    LET r == call.result
    IN  /\ call.fn = "VertexToEdge::new" =>
               IF call.position > 1 THEN r = Panic
               ELSE /\ DOMAIN r = {"edge_index", "connecting_vertex"}
                    /\ r.connecting_vertex \in {"V0", "V1"}
                    /\ LabelIndex(r.connecting_vertex) = call.position
                    /\ r.edge_index = call.edge_index
        /\ call.fn = "EdgeToEdge::new" =>
               IF call.position > 1 THEN r = Panic
               ELSE /\ DOMAIN r = {"connecting_vertex", "neighbour"}
                    /\ r.connecting_vertex \in {"V0", "V1"}
                    /\ LabelIndex(r.connecting_vertex) = call.position
                    /\ r.neighbour = call.neighbour
        /\ call.fn = "VertexToTri::new" =>
               IF call.position > 2 THEN r = Panic
               ELSE /\ DOMAIN r = {"tri_index", "connecting_vertex"}
                    /\ r.connecting_vertex \in {"V0", "V1", "V2"}
                    /\ LabelIndex(r.connecting_vertex) = call.position
                    /\ r.tri_index = call.tri_index
        /\ call.fn = "EdgeToTri::new" =>
               IF call.position > 2 THEN r = Panic
               ELSE /\ DOMAIN r = {"tri_index", "connecting_edge"}
                    /\ r.connecting_edge.label \in {"E0", "E1", "E2"}
                    /\ LabelIndex(r.connecting_edge.label) = call.position
                    /\ r.connecting_edge.is_reversed = call.is_reversed
                    /\ r.tri_index = call.tri_index
        /\ call.fn = "TriToTri::new" =>
               IF call.position > 2 THEN r = Panic
               ELSE /\ DOMAIN r = {"connecting_edge", "neighbour"}
                    /\ r.connecting_edge \in {"E0", "E1", "E2"}
                    /\ LabelIndex(r.connecting_edge) = call.position
                    /\ r.neighbour = call.neighbour

\* VertexToTri::new was called with the position 3 and panicked.
C17_Witness ==
    /\ call.fn = "VertexToTri::new"
    /\ call.tri_index = 2 /\ call.position = 3
    /\ IsPanic(call.result)

-----------------------------------------------------------------------------
\* C18: when an edge or a triangle of the mesh holds a vertex index that is
\* not below nvertices, a call of build_vertices aborts with an
\* out-of-bounds fault and does not complete.
C18_DanglingIndexFatal ==
    [][ (build_vertices /\ ~WellFormed) =>
            /\ fault' = "out_of_bounds"
            /\ "vertices" \notin built' ]_vars

\* build_vertices has aborted on a triangle whose third vertex is past the
\* two vertices of the mesh, after it filed the first two.
C18_Witness ==
    /\ fault = "out_of_bounds"
    /\ nvertices = 2
    /\ elements = [edges |-> <<>>, tris |-> <<Tri(0, 1, 2)>>]
    /\ "vertices" \notin built
    /\ Len(vertices) = 2
    /\ vertices[1].incident_tris = <<VertexToTri_new(0, 0)>>
    /\ vertices[2].incident_tris = <<VertexToTri_new(0, 1)>>

-----------------------------------------------------------------------------
\* The number of records filed in the incidence lists of vs.
RECURSIVE Filed(_)
Filed(vs) ==
    IF vs = <<>> THEN 0
    ELSE Len(Head(vs).incident_edges) + Len(Head(vs).incident_tris) + Filed(Tail(vs))

\* C19 as stated: there are a mesh with a dangling vertex index and a
\* prior state of the Topology (the array the call finds in vertices) such
\* that build_vertices aborts with vertices.len() different from nvertices.
C19_Original ==
    \E n \in 0 .. MaxIndex : \E els \in MeshElements :
        LET st == VerticesPass(vertices, n, els)
        IN  st.fault = "out_of_bounds" /\ Len(st.arr) # n

\* C19, amended: at the point where build_vertices aborts, vertices holds
\* exactly nvertices entries, whatever it held before; what the aborted
\* call leaves unfinished is the content: fewer records are filed than
\* the two per edge and three per triangle of a completed pass.
C19_AbortKeepsLength ==
    fault = "out_of_bounds" =>
        /\ ~WellFormed
        /\ "vertices" \notin built
        /\ Len(vertices) = nvertices
        /\ Filed(vertices) < 2 * Len(elements.edges) + 3 * Len(elements.tris)

\* build_vertices has aborted on the second edge, whose first endpoint is
\* past the three vertices of the mesh: the array has its three entries
\* and holds the two records of the first edge only.
C19_Witness ==
    /\ fault = "out_of_bounds"
    /\ nvertices = 3
    /\ elements = [edges |-> <<Edge(0, 1), Edge(3, 1)>>, tris |-> <<>>]
    /\ Len(vertices) = 3
    /\ vertices[1].incident_edges = <<VertexToEdge_new(0, 0)>>
    /\ vertices[2].incident_edges = <<VertexToEdge_new(0, 1)>>
    /\ Filed(vertices) = 2

-----------------------------------------------------------------------------
\* A sequence of numbers that never goes down, or that always goes up.
NonDecreasing(s) == \A k \in 1 .. (Len(s) - 1) : s[k] <= s[k + 1]

Increasing(s) == \A k \in 1 .. (Len(s) - 1) : s[k] < s[k + 1]

\* C20: records are listed in the order of the source elements. After
\* build_vertices every incident_edges list is ordered by non-decreasing
\* edge_index and every incident_tris list by non-decreasing tri_index (on
\* the unit square, vertex 0 lists triangle 0 at slot 0, then triangle 1 at
\* slot 2); after build_edges every edge_connections list is ordered by
\* non-decreasing neighbour.edge_index and every tri_connections list by
\* increasing tri_index; after build_triangles every tri_connections list
\* is ordered by increasing neighbour.tri_index.
C20_SourceOrder ==
    /\ "vertices" \in built =>
           /\ \A v \in 1 .. Len(vertices) :
                  /\ NonDecreasing([k \in DOMAIN vertices[v].incident_edges |->
                                        vertices[v].incident_edges[k].edge_index])
                  /\ NonDecreasing([k \in DOMAIN vertices[v].incident_tris |->
                                        vertices[v].incident_tris[k].tri_index])
           /\ (nvertices = 4 /\ elements.tris = <<Tri(0, 1, 2), Tri(2, 3, 0)>>) =>
                  vertices[1].incident_tris =
                      <<[tri_index |-> 0, connecting_vertex |-> "V0"],
                        [tri_index |-> 1, connecting_vertex |-> "V2"]>>
    /\ "edges" \in built =>
           \A i \in 1 .. Len(edges) :
               /\ NonDecreasing([k \in DOMAIN edges[i].edge_connections |->
                                     edges[i].edge_connections[k].neighbour.edge_index])
               /\ Increasing([k \in DOMAIN edges[i].tri_connections |->
                                  edges[i].tri_connections[k].tri_index])
    /\ "tris" \in built =>
           \A i \in 1 .. Len(tris) :
               Increasing([k \in DOMAIN tris[i].tri_connections |->
                               tris[i].tri_connections[k].neighbour.tri_index])

\* The vertex pass and the triangle pass have completed on the unit
\* square: vertex 0 and vertex 2 each list triangle 0 before triangle 1.
C20_Witness ==
    /\ {"vertices", "tris"} \subseteq built
    /\ nvertices = 4
    /\ elements = [edges |-> <<>>, tris |-> <<Tri(0, 1, 2), Tri(2, 3, 0)>>]
    /\ Len(vertices[1].incident_tris) = 2
    /\ vertices[3].incident_tris =
           <<[tri_index |-> 0, connecting_vertex |-> "V2"],
             [tri_index |-> 1, connecting_vertex |-> "V0"]>>

-----------------------------------------------------------------------------
\* The indexes registered under the name n, in call order.
RegisteredUnder(n) ==
    LET Named(c) == c[1] = n
        calls == SelectSeq(registered, Named)
    IN  [k \in 1 .. Len(calls) |-> calls[k][2]]

\* C21: after any sequence of register calls, get_registered_indexes(n) is
\* None exactly when n was never registered, and otherwise is the list of
\* the indexes registered under n, in call order, duplicates kept; the list
\* of a name is not changed by a registration under another name.
C21_TagSet ==
    \A n \in TagNames :
        /\ TagSet_get_registered_indexes(tag_map, n) =
               IF \E k \in DOMAIN registered : registered[k][1] = n
               THEN Some(RegisteredUnder(n)) ELSE None
        /\ TagSet_get_registered_indexes(tag_map, n) = None
               <=> RegisteredUnder(n) = <<>>

\* The calls of tests/tag.rs, with the index 2 in place of 85, then a
\* repeated index: two names hold their lists, the third was never used.
C21_Witness ==
    /\ registered = << <<"tag_name_0", 0>>, <<"tag_name_0", 2>>,
                       <<"tag_name_1", 2>>, <<"tag_name_0", 0>> >>
    /\ TagSet_get_registered_indexes(tag_map, "tag_name_0") = Some(<<0, 2, 0>>)
    /\ TagSet_get_registered_indexes(tag_map, "tag_name_1") = Some(<<2>>)
    /\ TagSet_get_registered_indexes(tag_map, "tag_name_2") = None

-----------------------------------------------------------------------------
\* The tagged pushes of the kind k under the name n, in call order.
TaggedUnder(k, n) ==
    LET Named(c) == c.kind = k /\ c.name = n
    IN  SelectSeq(tagged, Named)

\* C22: each tagged push appends the element at the end of its array and
\* registers, under its name in the tag set of its kind, the length the
\* array had before the push. So after any sequence of plain and tagged
\* pushes the tag set of a kind holds, under each name, the places of the
\* elements pushed with that name, in order; each is an index of the array
\* and the array holds there the element pushed with that tag.
C22_TaggedPush ==
    \A k \in Kinds : \A n \in TagNames :
        LET calls == TaggedUnder(k, n)
            got == TagSet_get_registered_indexes(mesh[k].tags, n)
        IN  /\ got = IF calls = <<>> THEN None
                     ELSE Some([j \in 1 .. Len(calls) |-> calls[j].at])
            /\ got.some =>
                   \A j \in 1 .. Len(got.val) :
                       /\ got.val[j] < Len(mesh[k].elements)
                       /\ mesh[k].elements[got.val[j] + 1] = calls[j].element

\* The pushes of tests/mesh.rs: a plain vertex, then a tagged vertex, which
\* is registered under its name with the index 1.
C22_Witness ==
    /\ mesh["vertices"].elements = <<"p", "q">>
    /\ Len(tagged) = 1
    /\ tagged[1].kind = "vertices" /\ tagged[1].name = "tag_name_0"
    /\ TagSet_get_registered_indexes(mesh["vertices"].tags, "tag_name_0") = Some(<<1>>)
    /\ TagSet_get_registered_indexes(mesh["edges"].tags, "tag_name_0") = None

-----------------------------------------------------------------------------
\* The resources after the commands of q are applied one after the other,
\* the first first.
RECURSIVE ApplyAll(_, _)
ApplyAll(st, q) ==
    IF q = <<>> THEN st
    ELSE ApplyAll(Interpreter_apply_cmd(st, Head(q)), Tail(q))

\* C23: push_cmd appends the command at the back of cmd_queue and changes
\* nothing else. When apply_cmds_in_queue completes, cmd_queue is empty,
\* cmd_history is its previous content followed by the commands that were
\* queued, in push order, and each of those commands has been applied to
\* the resources once, in that order.
C23_QueueFifo ==
    [][ /\ push_cmd =>
               /\ \E cmd \in Cmds : cmd_queue' = Append(cmd_queue, cmd)
               /\ UNCHANGED <<resources, cmd_history, applied, fault>>
        /\ (apply_cmds_in_queue /\ fault' = "none") =>
               /\ cmd_queue' = <<>>
               /\ cmd_history' = cmd_history \o cmd_queue
               /\ applied' = applied \o cmd_queue
               /\ resources' =
                      ApplyAll([resources |-> resources, fault |-> "none"],
                               cmd_queue).resources ]_vars

\* Three commands were queued and then drained: the vector, the mesh, and
\* the push of the vertex, which needs both; the mesh holds the vertex.
C23_Witness ==
    /\ fault = "none"
    /\ cmd_queue = <<>>
    /\ cmd_history =
           <<[op |-> "NewVecFloat", input_vec |-> <<0, 1>>, output_id |-> "MyCoords"],
             [op |-> "NewMesh2d", output_id |-> "MyMesh"],
             [op |-> "PushVertex2d", mesh_id |-> "MyMesh", coords_id |-> "MyCoords"]>>
    /\ applied = cmd_history
    /\ resources["MyMesh"] = Some([kind |-> "Mesh2d", vertices |-> << <<0, 1>> >>])
    /\ resources["MyCoords"] = Some(VecFloat(<<0, 1>>))

-----------------------------------------------------------------------------
\* The resource a call of one of the four creating methods asks for.
Requested(c) ==
    CASE c.fn = "new_uint" -> UInt(c.input)
      [] c.fn = "new_vec_float" -> VecFloat(c.input_vec)
      [] c.fn = "new_mesh2d" -> Mesh2d_new
      [] c.fn = "new_mesh3d" -> Mesh3d_new

\* C24: new_uint, new_vec_float, new_mesh2d and new_mesh3d panic when
\* output_id is already a key of resources and leave the resources as they
\* were; otherwise they insert the one resource asked for under output_id
\* and touch no other. So the resource bound to an id never changes once
\* it is created.
C24_NoOverwrite ==
    [][ /\ \A id \in ResourceIds :
               resources[id].some => resources'[id] = resources[id]
        /\ (new_uint \/ new_vec_float \/ new_mesh2d \/ new_mesh3d) =>
               IF resources[call'.output_id].some
               THEN fault' = "defined" /\ resources' = resources
               ELSE /\ fault' = "none"
                    /\ resources' =
                           [resources EXCEPT ![call'.output_id] = Some(Requested(call'))] ]_vars

\* The second doc example of new_uint: the id holds an integer and a second
\* new_uint under the same id has panicked; the first value is still there.
C24_Witness ==
    /\ fault = "defined"
    /\ call = [fn |-> "new_uint", input |-> 1, output_id |-> "MyInt"]
    /\ resources["MyInt"] = Some(UInt(0))
    /\ ~resources["MyMesh"].some

-----------------------------------------------------------------------------
\* The triangle-to-triangle record {a, {i, {b, r}}}.
TriRecord(a, i, b, r) ==
    [connecting_edge |-> a,
     neighbour |-> [tri_index |-> i, connecting_edge |-> EdgePosition(b, r)]]

\* C25: for two distinct triangles i0 and i1, each with three pairwise
\* distinct vertices, whose vertex sets differ, after build_triangles the
\* list of i0 holds {a, {i1, {b, r}}} exactly when the list of i1 holds
\* {b, {i0, {a, r}}}; and get_common_edge(t0, t1) is Some((a, {b, r}))
\* exactly when get_common_edge(t1, t0) is Some((b, {a, r})).
C25_Mirrored ==
    "tris" \in built =>
        \A i0 \in TriIdx : \A i1 \in TriIdx \ {i0} :
            LET t0 == MeshTri(i0)
                t1 == MeshTri(i1)
            IN  (/\ ~DegenerateTri(t0) /\ ~DegenerateTri(t1)
                 /\ {t0.v[s] : s \in 0 .. 2} # {t1.v[s] : s \in 0 .. 2}) =>
                    \A a \in EdgeLabels : \A b \in EdgeLabels : \A r \in BOOLEAN :
                        /\ TriRecord(a, i1, b, r) \in Range(tris[i0 + 1].tri_connections)
                               <=> TriRecord(b, i0, a, r) \in Range(tris[i1 + 1].tri_connections)
                        /\ get_common_edge(t0, t1) = Some(<<a, EdgePosition(b, r)>>)
                               <=> get_common_edge(t1, t0) = Some(<<b, EdgePosition(a, r)>>)

\* Two triangles share the edge 1-2, the second edge of the first and the
\* first edge of the second, in opposite directions: each lists the other
\* with the two labels exchanged and the same flag.
C25_Witness ==
    /\ "tris" \in built
    /\ elements.tris = <<Tri(0, 1, 2), Tri(2, 1, 3)>>
    /\ tris[1].tri_connections = <<TriRecord("E1", 1, "E0", TRUE)>>
    /\ tris[2].tri_connections = <<TriRecord("E0", 0, "E1", TRUE)>>

-----------------------------------------------------------------------------
\* C26: after build_triangles on any mesh, the list of a triangle i0 holds
\* at most one record naming each triangle i1, also when the two share
\* more than one canonical edge; so it holds at most T - 1 records, T the
\* number of triangles.
C26_OneRecordPerPair ==
    "tris" \in built =>
        \A i0 \in TriIdx :
            LET tc == tris[i0 + 1].tri_connections
            IN  /\ \A i1 \in TriIdx :
                       Cardinality({k \in DOMAIN tc : tc[k].neighbour.tri_index = i1}) <= 1
                /\ Len(tc) <= Len(elements.tris) - 1

\* Three triangles on the same three vertices: every two of them share
\* their three edges, and each lists the other two once.
C26_Witness ==
    /\ "tris" \in built
    /\ elements.tris = <<Tri(0, 1, 2), Tri(1, 2, 0), Tri(2, 1, 0)>>
    /\ \A i \in 1 .. 3 : Len(tris[i].tri_connections) = 2
    /\ tris[1].tri_connections[1].neighbour.tri_index = 1
    /\ tris[1].tri_connections[2].neighbour.tri_index = 2

-----------------------------------------------------------------------------
\* C27: for an edge (u0, u1) with u0 # u1 and any triangle t, degenerate
\* or not, get_edge_position((u1, u0), t) is None exactly when
\* get_edge_position((u0, u1), t) is None, and otherwise the two results
\* have the same label and opposite is_reversed flags.
C27_ReversedEdge ==
    (call.fn = "get_edge_position" /\ call.e.v[0] # call.e.v[1]) =>
        LET back == get_edge_position(Edge(call.e.v[1], call.e.v[0]), call.t)
        IN  /\ back.some = call.result.some
            /\ call.result.some =>
                   /\ back.val.label = call.result.val.label
                   /\ back.val.is_reversed = ~call.result.val.is_reversed

\* The edge (1, 0) against the degenerate triangle (0, 1, 0): it is the
\* first face reversed and the second face forward; the first face wins
\* for the edge and for its reverse.
C27_Witness ==
    /\ call.fn = "get_edge_position"
    /\ call.e = Edge(1, 0)
    /\ call.t = Tri(0, 1, 0)
    /\ call.result = Some(EdgePosition("E0", TRUE))
    /\ get_edge_position(Edge(0, 1), call.t) = Some(EdgePosition("E0", FALSE))

-----------------------------------------------------------------------------
\* C28: build_edges and build_triangles complete on every mesh, also when
\* an edge or a triangle holds a vertex index >= nvertices, and what they
\* store is determined by the element arrays alone: neither nvertices nor
\* the arrays of the Topology before the call have a part in it.
C28_NoVertexFault ==
    [][/\ build_edges =>
              /\ fault' = "none"
              /\ "edges" \in built'
              /\ edges' = EdgesPass(<<>>, elements).arr
       /\ build_triangles =>
              /\ fault' = "none"
              /\ "tris" \in built'
              /\ tris' = TrianglesPass(<<>>, elements).arr]_vars

\* A mesh without vertices whose edge and triangle hold the indices 1, 2
\* and 3: both passes have completed and the edge has found the triangle.
C28_Witness ==
    /\ nvertices = 0
    /\ elements = [edges |-> <<Edge(3, 2)>>, tris |-> <<Tri(2, 3, 1)>>]
    /\ ~WellFormed
    /\ fault = "none"
    /\ {"edges", "tris"} \subseteq built
    /\ edges = <<[edge_connections |-> <<>>,
                  tri_connections |-> <<EdgeToTri_new(0, 0, TRUE)>>]>>
    /\ Len(tris) = 1

-----------------------------------------------------------------------------
\* The records of a list, as a set.
Records(list) == {list[k] : k \in DOMAIN list}

\* C29: in every state of a Topology, also after a pass that panicked on a
\* vertex index, every VertexToEdge and EdgeToEdge record (the nested
\* neighbour included) has connecting_vertex V0 or V1, every VertexToTri
\* record has V0, V1 or V2, every stored edge_index is below the number of
\* mesh edges and every stored tri_index below the number of mesh
\* triangles; no call has panicked in a constructor of a record.
C29_LabelsFit ==
    /\ fault # "label"
    /\ \A v \in DOMAIN vertices :
           /\ \A r \in Records(vertices[v].incident_edges) :
                  r.connecting_vertex \in {"V0", "V1"} /\ r.edge_index \in EdgeIdx
           /\ \A r \in Records(vertices[v].incident_tris) :
                  r.connecting_vertex \in {"V0", "V1", "V2"} /\ r.tri_index \in TriIdx
    /\ \A i \in DOMAIN edges :
           /\ \A r \in Records(edges[i].edge_connections) :
                  /\ r.connecting_vertex \in {"V0", "V1"}
                  /\ r.neighbour.connecting_vertex \in {"V0", "V1"}
                  /\ r.neighbour.edge_index \in EdgeIdx
           /\ \A r \in Records(edges[i].tri_connections) : r.tri_index \in TriIdx
    /\ \A j \in DOMAIN tris :
           \A r \in Records(tris[j].tri_connections) : r.neighbour.tri_index \in TriIdx

\* The three passes have completed on two edges with a common end: the
\* vertex array and the edge array both hold records with the label V1 and
\* with the last edge index.
C29_Witness ==
    /\ built = {"vertices", "edges", "tris"}
    /\ fault = "none"
    /\ nvertices = 3
    /\ elements = [edges |-> <<Edge(0, 1), Edge(2, 1)>>, tris |-> <<>>]
    /\ vertices[2].incident_edges = <<VertexToEdge_new(0, 1), VertexToEdge_new(1, 1)>>
    /\ edges[1].edge_connections = <<EdgeToEdge_new(1, VertexToEdge_new(1, 1))>>

-----------------------------------------------------------------------------
\* C30: apply_cmd on a GetVertex2d command panics as unsupported and
\* leaves the resources as they were. When apply_cmds_in_queue is ended by
\* that panic at the k-th queued command, the k - 1 commands before it
\* have been applied, in order, and appended to cmd_history; the k-th is
\* neither in cmd_queue nor in cmd_history; the commands behind it are
\* cmd_queue, in their order.
C30_UnsupportedDropped ==
    [][(apply_cmds_in_queue /\ fault' = "unsupported") =>
           \E k \in DOMAIN cmd_queue :
               LET cmd == cmd_queue[k]
                   before == SubSeq(cmd_queue, 1, k - 1)
                   then == ApplyAll([resources |-> resources, fault |-> "none"], before)
               IN  /\ cmd.op = "GetVertex2d"
                   /\ then.fault = "none"
                   /\ Interpreter_apply_cmd(then, cmd) =
                          [resources |-> then.resources, fault |-> "unsupported"]
                   /\ resources' = then.resources
                   /\ applied' = applied \o before
                   /\ cmd_history' = cmd_history \o before
                   /\ \A h \in DOMAIN cmd_history' : cmd_history'[h].op # "GetVertex2d"
                   /\ cmd_queue' = SubSeq(cmd_queue, k + 1, Len(cmd_queue)) ]_vars

\* Three commands were queued: the mesh was made, the GetVertex2d command
\* behind it ended the drain and is gone, the third command is still queued
\* and was not applied.
C30_Witness ==
    /\ fault = "unsupported"
    /\ cmd_history = <<[op |-> "NewMesh2d", output_id |-> "MyMesh"]>>
    /\ applied = cmd_history
    /\ cmd_queue = <<[op |-> "NewUInt", input |-> 1, output_id |-> "MyCoords"]>>
    /\ resources["MyMesh"] = Some(Mesh2d_new)
    /\ ~resources["MyCoords"].some
    /\ ~resources["MyInt"].some

====
